---- MODULE Spec2Model ----
(***************************************************************************)
(* Model of the protocol engine (backend/app/services/protocol_engine.py), *)
(* the safety service (backend/app/services/safety_service.py) and the     *)
(* session endpoints that record completions                               *)
(* (backend/app/api/v1/therapists.py).                                     *)
(*                                                                         *)
(* Python values are modelled as follows:                                  *)
(*   - an object or dict is a record; an attribute that is None, or a key  *)
(*     that is missing, is a field the record does not have;               *)
(*   - a list is a sequence, a set is a set;                               *)
(*   - a call that may raise returns [ok |-> TRUE, val |-> v] or           *)
(*     [ok |-> FALSE, err |-> e], e naming the raise statement;            *)
(*   - an Optional result is [some |-> TRUE, step |-> s] or                *)
(*     [some |-> FALSE].                                                   *)
(***************************************************************************)
EXTENDS Integers, Sequences, FiniteSets, TLC

VARIABLES protocol, sessions, patient_data, res, calls

vars == <<protocol, sessions, patient_data, res, calls>>

(***************************************************************************)
(* Bounds of the model.                                                    *)
(***************************************************************************)
MaxSteps == 3

MaxOrder == 3

MaxSessions == 2

MaxScore == 4


MaxChecks == 4

MaxBlockers == 2

MaxWarnings == 6

MaxInfos == 21

MaxBound == 2

MaxRanges == 3

MaxFactors == 3

MaxDepth == 3

(***************************************************************************)
(* Generic helpers.                                                        *)
(***************************************************************************)
Has(r, k) == k \in DOMAIN r

Ok(v) == [ok |-> TRUE, val |-> v]

Err(e) == [ok |-> FALSE, err |-> e]

Some(s) == [some |-> TRUE, step |-> s]

NoStep == [some |-> FALSE]

NoRes == [op |-> "none"]

Range(s) == {s[i] : i \in DOMAIN s}

(***************************************************************************)
(* The values of the patient data document carry their Python type, so     *)
(* that isinstance tests, "is True" and comparisons between types are      *)
(* computed: a number, a bool, a str (a sequence of characters), a list    *)
(* and a dict (a record).  patient_data itself is the top-level dict.      *)
(***************************************************************************)
Num(n) == [t |-> "num", v |-> n]

Bool(b) == [t |-> "bool", v |-> b]

Str(s) == [t |-> "str", v |-> s]

List(q) == [t |-> "list", v |-> q]

Dict(d) == [t |-> "dict", v |-> d]

(***************************************************************************)
(* models/treatment.py and models/protocol.py: the enumerations.           *)
(***************************************************************************)
SessionStatus == {"scheduled", "in_progress", "completed", "cancelled"}

StepType ==
  {"screening", "preparation", "dosing", "integration", "decision_point",
   "followup"}

(***************************************************************************)
(* sorted(steps, key=lambda s: s.sequence_order): a stable sort, modelled  *)
(* as insertion of each element after the elements whose key is not        *)
(* greater.                                                                *)
(***************************************************************************)
RECURSIVE InsertByOrder(_, _)
InsertByOrder(step, sorted) ==
  IF sorted = <<>> THEN <<step>>
  ELSE IF Head(sorted).sequence_order <= step.sequence_order
       THEN <<Head(sorted)>> \o InsertByOrder(step, Tail(sorted))
       ELSE <<step>> \o sorted

RECURSIVE SortedBySequence(_)
SortedBySequence(steps) ==
  IF steps = <<>> THEN <<>>
  ELSE InsertByOrder(steps[Len(steps)],
                     SortedBySequence(SubSeq(steps, 1, Len(steps) - 1)))

(***************************************************************************)
(* protocol_engine.py, get_current_step and is_protocol_complete: the set  *)
(* of step ids that have a completed session.                              *)
(***************************************************************************)
(* the completed set taken from the most recent completed session only *)
LastCompletedSessionStepId(ss) ==
  LET completed == SelectSeq(ss, LAMBDA x : x.status = "completed")
  IN  IF completed = <<>> THEN {}
      ELSE {completed[Len(completed)].protocol_step_id}

RECURSIVE CompletedSessionStepIds(_)
CompletedSessionStepIds(ss) ==
  IF ss = <<>> THEN {}
  ELSE LET rest == CompletedSessionStepIds(Tail(ss))
       IN  IF Head(ss).status = "completed"
           THEN rest \cup {Head(ss).protocol_step_id}
           ELSE rest

RECURSIVE FirstNotCompleted(_, _)
FirstNotCompleted(steps, done) ==
  IF steps = <<>> THEN NoStep
  ELSE IF Head(steps).id \notin done THEN Some(Head(steps))
       ELSE FirstNotCompleted(Tail(steps), done)

(* get_current_step that takes the number of completed sessions as the     *)
(* number of completed steps                                               *)
get_current_step_by_count(plan) ==
  LET completed ==
        SelectSeq(plan.sessions, LAMBDA x : x.status = "completed")
      protocol_steps == SortedBySequence(plan.protocol.steps)
  IN  IF Len(completed) < Len(protocol_steps)
      THEN Some(protocol_steps[Len(completed) + 1])
      ELSE NoStep

get_current_step(plan) ==
  LET completed_session_step_ids == CompletedSessionStepIds(plan.sessions)
      protocol_steps == SortedBySequence(plan.protocol.steps)
  IN  FirstNotCompleted(protocol_steps, completed_session_step_ids)

(* is_protocol_complete by a comparison of counts *)
is_protocol_complete_by_count(plan) ==
  LET completed_session_step_ids == CompletedSessionStepIds(plan.sessions)
      protocol_step_ids == {s.id : s \in Range(plan.protocol.steps)}
  IN  Cardinality(protocol_step_ids) <= Cardinality(completed_session_step_ids)

is_protocol_complete(plan) ==
  LET completed_session_step_ids == CompletedSessionStepIds(plan.sessions)
      protocol_step_ids == {s.id : s \in Range(plan.protocol.steps)}
  IN  protocol_step_ids \subseteq completed_session_step_ids

(***************************************************************************)
(* safety_service.py.  A SafetyCheck is a record [check_type, condition,   *)
(* severity, override_allowed]; its condition is the JSON dict, a record   *)
(* with the keys the author gave it.  Strings of clinical data (diagnosis  *)
(* codes, medication names and classes) are sequences of characters, so    *)
(* that Python's substring test is computed and not assumed.  The          *)
(* human-readable message of a result is not modelled.                     *)
(***************************************************************************)
IsSubstring(needle, hay) ==
  \E i \in 1..(Len(hay) - Len(needle) + 1) :
     SubSeq(hay, i, i + Len(needle) - 1) = needle

Get(r, k, default) == IF Has(r, k) THEN r[k] ELSE default

(* "not r.get(k)" for a value that is a dict, a list or a str: the key is  *)
(* missing or its value is empty                                           *)
Missing(r, k) == ~Has(r, k) \/ DOMAIN r[k] = {}

_check_diagnosis(condition, pd) ==
  LET diagnoses == Get(pd, "diagnoses", List(<<>>)).v
      value == condition.value
      operator == Get(condition, "operator", "contains")
  IN  IF operator = "contains"
      THEN \E i \in DOMAIN diagnoses : IsSubstring(value, diagnoses[i].v)
      ELSE IF operator = "exact"
      THEN \E i \in DOMAIN diagnoses : diagnoses[i].v = value
      ELSE FALSE

_check_medication(condition, pd) ==
  LET medications == Get(pd, "medications", List(<<>>)).v
      value == condition.value
      operator == Get(condition, "operator", "name_match")
  IN  IF operator = "class_match"
      THEN \E i \in DOMAIN medications :
              /\ Has(medications[i].v, "class")
              /\ medications[i].v.class.v = value
      ELSE IF operator = "name_match"
      THEN \E i \in DOMAIN medications :
              /\ Has(medications[i].v, "name")
              /\ medications[i].v.name.v = value
      ELSE FALSE

(* _check_lab_value that takes a reading that is absent for a finding *)
_check_lab_value_absent_triggers(condition, pd) ==
  LET lab_values == Get(pd, "lab_values", Dict(<<>>)).v
      lab_name == condition.name
      operator == Get(condition, "operator", "None")
      threshold == condition.threshold
  IN  IF ~Has(lab_values, lab_name) THEN TRUE
      ELSE LET value == lab_values[lab_name].v
           IN  IF operator = "greater_than" THEN value > threshold
               ELSE IF operator = "less_than" THEN value < threshold
               ELSE IF operator = "equals" THEN value = threshold
               ELSE FALSE

_check_lab_value(condition, pd) ==
  LET lab_values == Get(pd, "lab_values", Dict(<<>>)).v
      lab_name == condition.name
      operator == Get(condition, "operator", "None")
      threshold == condition.threshold
  IN  IF ~Has(lab_values, lab_name) THEN FALSE
      ELSE LET value == lab_values[lab_name].v
           IN  IF operator = "greater_than" THEN value > threshold
               ELSE IF operator = "less_than" THEN value < threshold
               ELSE IF operator = "equals" THEN value = threshold
               ELSE FALSE

_check_age(condition, pd) ==
  IF ~Has(pd, "age") THEN FALSE
  ELSE LET age == pd.age.v
           operator == Get(condition, "operator", "None")
           threshold == condition.threshold
       IN  IF operator = "less_than" THEN age < threshold
           ELSE IF operator = "greater_than" THEN age > threshold
           ELSE FALSE

_check_vital_sign(condition, pd) ==
  LET vital_signs == Get(pd, "vital_signs", Dict(<<>>)).v
      vital_name == condition.name
      operator == Get(condition, "operator", "None")
      threshold == condition.threshold
  IN  IF ~Has(vital_signs, vital_name) THEN FALSE
      ELSE LET value == vital_signs[vital_name].v
           IN  IF operator = "greater_than" THEN value > threshold
               ELSE IF operator = "less_than" THEN value < threshold
               ELSE FALSE

(* evaluate_safety_check that takes a condition of a type it does not *)
(* know for a finding                                                 *)
evaluate_safety_check_fail_closed(safety_check, pd) ==
  LET condition == safety_check.condition
      condition_type == Get(condition, "type", "None")
      triggered ==
        IF condition_type = "diagnosis" THEN _check_diagnosis(condition, pd)
        ELSE IF condition_type = "medication"
        THEN _check_medication(condition, pd)
        ELSE IF condition_type = "lab_value"
        THEN _check_lab_value(condition, pd)
        ELSE IF condition_type = "age" THEN _check_age(condition, pd)
        ELSE IF condition_type = "vital_sign"
        THEN _check_vital_sign(condition, pd)
        ELSE TRUE
  IN  [triggered |-> triggered,
       severity |-> safety_check.severity,
       override_allowed |-> (safety_check.override_allowed = "true")]

evaluate_safety_check(safety_check, pd) ==
  LET condition == safety_check.condition
      condition_type == Get(condition, "type", "None")
      triggered ==
        IF condition_type = "diagnosis" THEN _check_diagnosis(condition, pd)
        ELSE IF condition_type = "medication"
        THEN _check_medication(condition, pd)
        ELSE IF condition_type = "lab_value"
        THEN _check_lab_value(condition, pd)
        ELSE IF condition_type = "age" THEN _check_age(condition, pd)
        ELSE IF condition_type = "vital_sign"
        THEN _check_vital_sign(condition, pd)
        ELSE FALSE
  IN  [triggered |-> triggered,
       severity |-> safety_check.severity,
       override_allowed |-> (safety_check.override_allowed = "true")]

(* calculate_risk_score without the cap at 100 *)
calculate_risk_score_uncapped(contraindications, warnings, risk_factors) ==
  IF Len(contraindications) > 0 THEN 100
  ELSE Len(warnings) * 20 + Len(risk_factors) * 5

calculate_risk_score(contraindications, warnings, risk_factors) ==
  IF Len(contraindications) > 0 THEN 100
  ELSE LET score == Len(warnings) * 20 + Len(risk_factors) * 5
       IN  IF score < 100 THEN score ELSE 100

(* the loop of check_contraindications, a blocking check that allows an    *)
(* override being filed as a warning                                       *)
RECURSIVE BucketsOverridable(_, _, _)
BucketsOverridable(pd, safety_checks, n) ==
  IF n = 0
  THEN [contraindications |-> <<>>, warnings |-> <<>>, risk_factors |-> <<>>]
  ELSE LET acc == BucketsOverridable(pd, safety_checks, n - 1)
           safety_check == safety_checks[n]
           result == evaluate_safety_check(safety_check, pd)
           item == [severity |-> result.severity,
                    override_allowed |-> result.override_allowed,
                    check_type |-> safety_check.check_type,
                    condition |-> safety_check.condition]
       IN  IF ~result.triggered THEN acc
           ELSE IF result.severity = "blocking" /\ ~result.override_allowed
           THEN [acc EXCEPT !.contraindications = Append(@, item)]
           ELSE IF result.severity \in {"blocking", "warning"}
           THEN [acc EXCEPT !.warnings = Append(@, item)]
           ELSE [acc EXCEPT !.risk_factors = Append(@, item)]

(* The loop of check_contraindications: the three lists after the checks   *)
(* safety_checks[1..n] have been evaluated, in list order.                 *)
(* the loop of check_contraindications, left at the first blocking check *)
(* that is triggered                                                     *)
RECURSIVE BucketsUntilBlocker(_, _, _)
BucketsUntilBlocker(pd, safety_checks, n) ==
  IF n = 0
  THEN [contraindications |-> <<>>, warnings |-> <<>>, risk_factors |-> <<>>]
  ELSE LET acc == BucketsUntilBlocker(pd, safety_checks, n - 1)
           safety_check == safety_checks[n]
           result == evaluate_safety_check(safety_check, pd)
           item == [severity |-> result.severity,
                    override_allowed |-> result.override_allowed,
                    check_type |-> safety_check.check_type,
                    condition |-> safety_check.condition]
       IN  IF Len(acc.contraindications) > 0 \/ ~result.triggered THEN acc
           ELSE IF result.severity = "blocking"
           THEN [acc EXCEPT !.contraindications = Append(@, item)]
           ELSE IF result.severity = "warning"
           THEN [acc EXCEPT !.warnings = Append(@, item)]
           ELSE [acc EXCEPT !.risk_factors = Append(@, item)]

RECURSIVE Buckets(_, _, _)
Buckets(pd, safety_checks, n) ==
  IF n = 0
  THEN [contraindications |-> <<>>, warnings |-> <<>>, risk_factors |-> <<>>]
  ELSE LET acc == Buckets(pd, safety_checks, n - 1)
           safety_check == safety_checks[n]
           result == evaluate_safety_check(safety_check, pd)
           item == [severity |-> result.severity,
                    override_allowed |-> result.override_allowed,
                    check_type |-> safety_check.check_type,
                    condition |-> safety_check.condition]
       IN  IF ~result.triggered THEN acc
           ELSE IF result.severity = "blocking"
           THEN [acc EXCEPT !.contraindications = Append(@, item)]
           ELSE IF result.severity = "warning"
           THEN [acc EXCEPT !.warnings = Append(@, item)]
           ELSE [acc EXCEPT !.risk_factors = Append(@, item)]

(* check_contraindications that lets warnings count against eligibility *)
check_contraindications_strict(pd, safety_checks) ==
  LET b == Buckets(pd, safety_checks, Len(safety_checks))
      risk_score ==
        calculate_risk_score(b.contraindications, b.warnings, b.risk_factors)
      eligible == Len(b.contraindications) = 0 /\ Len(b.warnings) = 0
  IN  [eligible |-> eligible,
       risk_score |-> risk_score,
       contraindications |-> b.contraindications,
       warnings |-> b.warnings,
       risk_factors |-> b.risk_factors]

check_contraindications(pd, safety_checks) ==
  LET b == Buckets(pd, safety_checks, Len(safety_checks))
      risk_score ==
        calculate_risk_score(b.contraindications, b.warnings, b.risk_factors)
      eligible == Len(b.contraindications) = 0
  IN  [eligible |-> eligible,
       risk_score |-> risk_score,
       contraindications |-> b.contraindications,
       warnings |-> b.warnings,
       risk_factors |-> b.risk_factors]

(* protocol_engine.py, can_progress_to_step *)
can_progress_to_step(plan, next_step, pd) ==
  LET safety_checks == next_step.safety_checks
      safety_result == check_contraindications(pd, safety_checks)
      can_progress == safety_result.eligible
  IN  [can_progress |-> can_progress,
       blockers |-> safety_result.contraindications,
       warnings |-> safety_result.warnings,
       risk_factors |-> safety_result.risk_factors]


(***************************************************************************)
(* protocol_engine.py, the factor evaluator.  A factor definition is the   *)
(* JSON dict of the rule: a record with the keys the author gave it.  The  *)
(* factor path is a str, a sequence of characters; outcome labels and dict *)
(* keys are strings.                                                       *)
(***************************************************************************)
NoneV == [t |-> "none"]

(* path.split("."): the keys between the dots, the empty ones included *)
RECURSIVE Split(_, _)
Split(path, key) ==
  IF path = <<>> THEN <<key>>
  ELSE IF Head(path) = "." THEN <<key>> \o Split(Tail(path), "")
       ELSE Split(Tail(path), key \o Head(path))

(* a walk that keeps the last value it found when a key is missing *)
RECURSIVE WalkLenient(_, _)
WalkLenient(current, keys) ==
  IF keys = <<>> THEN current
  ELSE IF current.t = "dict" /\ Has(current.v, Head(keys))
       THEN WalkLenient(current.v[Head(keys)], Tail(keys))
       ELSE current

RECURSIVE Walk(_, _)
Walk(current, keys) ==
  IF keys = <<>> THEN current
  ELSE IF current.t = "dict" /\ Has(current.v, Head(keys))
       THEN Walk(current.v[Head(keys)], Tail(keys))
       ELSE NoneV

_get_nested_value(data, path) == Walk(Dict(data), Split(path, ""))

IsNumber(x) == x.t \in {"num", "bool"}

NumberOf(x) == IF x.t = "bool" THEN (IF x.v THEN 1 ELSE 0) ELSE x.v

(* Python's == between two values of the document *)
PyEq(a, b) ==
  IF IsNumber(a) /\ IsNumber(b) THEN NumberOf(a) = NumberOf(b)
  ELSE /\ a.t = b.t
       /\ a.t # "none" => a.v = b.v

(* a match that keeps the max of every range out, the last one too *)
InRangeMatchHalfOpen(value, range_def, last) ==
  LET n == NumberOf(value)
  IN  /\ Has(range_def, "min") => range_def.min <= n
      /\ Has(range_def, "max") => n < range_def.max

InRangeMatch(value, range_def, last) ==
  LET n == NumberOf(value)
  IN  \/ /\ Has(range_def, "min") => range_def.min <= n
         /\ Has(range_def, "max") => n < range_def.max
      \/ /\ Has(range_def, "max") /\ n = range_def.max
         /\ range_def = last

RECURSIVE ScanRanges(_, _, _, _)
ScanRanges(value, ranges, i, nomatch) ==
  IF i > Len(ranges) THEN Err(nomatch)
  ELSE IF ~IsNumber(value) THEN Err("TypeError")
  ELSE IF InRangeMatch(value, ranges[i], ranges[Len(ranges)])
       THEN Ok(ranges[i].value)
       ELSE ScanRanges(value, ranges, i + 1, nomatch)

_evaluate_in_range(value, ranges) ==
  ScanRanges(value, ranges, 1, "NoMatchingRange")

_evaluate_threshold(value, thresholds) ==
  ScanRanges(value, thresholds, 1, "NoMatchingThreshold")

RECURSIVE _evaluate_equals(_, _)
_evaluate_equals(value, conditions) ==
  IF conditions = <<>> THEN Err("NoMatchingCondition")
  ELSE IF PyEq(value, Get(Head(conditions), "value", NoneV))
       THEN Ok(Head(conditions).result)
       ELSE _evaluate_equals(value, Tail(conditions))

_evaluate_boolean(value, factor_def) ==
  IF value.t = "bool" /\ value.v = TRUE
  THEN IF ~Has(factor_def, "true_value") THEN Err("MissingBooleanLabel")
       ELSE Ok(factor_def.true_value)
  ELSE IF ~Has(factor_def, "false_value") THEN Err("MissingBooleanLabel")
       ELSE Ok(factor_def.false_value)

evaluate_factor(factor_def, pd) ==
  IF Missing(factor_def, "factor") \/ Get(factor_def, "operator", "") = ""
  THEN Err("InvalidFactorDefinition")
  ELSE LET operator == factor_def.operator
           value == _get_nested_value(pd, factor_def.factor)
       IN  IF value.t = "none" THEN Err("MissingFactorData")
           ELSE IF operator = "in_range"
           THEN _evaluate_in_range(value, Get(factor_def, "ranges", <<>>))
           ELSE IF operator = "threshold"
           THEN IF Missing(factor_def, "thresholds")
                THEN Err("MissingThresholds")
                ELSE _evaluate_threshold(value, factor_def.thresholds)
           ELSE IF operator = "equals"
           THEN _evaluate_equals(value, Get(factor_def, "conditions", <<>>))
           ELSE IF operator = "boolean"
           THEN _evaluate_boolean(value, factor_def)
           ELSE Err("UnknownOperator")

(* a join that sorts the labels first: "high" comes before "low" *)
RECURSIVE JoinSorted(_)
JoinSorted(factors) ==
  LET sorted == SelectSeq(factors, LAMBDA f : f = "high")
                  \o SelectSeq(factors, LAMBDA f : f # "high")
  IN  IF factors = <<>> THEN ""
      ELSE IF Len(factors) = 1 THEN factors[1]
      ELSE sorted[1] \o " + " \o JoinSorted(Tail(sorted))

(* " + ".join(factors) *)
RECURSIVE Join(_)
Join(factors) ==
  IF factors = <<>> THEN ""
  ELSE IF Len(factors) = 1 THEN factors[1]
       ELSE factors[1] \o " + " \o Join(Tail(factors))

(* combine_factors that prefers the default entry to the exact key *)
combine_factors_default_first(factors, decision_matrix) ==
  LET matrix_key == Join(factors)
  IN  IF Has(decision_matrix, "default") THEN Ok(decision_matrix["default"])
      ELSE IF Has(decision_matrix, matrix_key)
      THEN Ok(decision_matrix[matrix_key])
      ELSE Err("NoMatrixEntry")

combine_factors(factors, decision_matrix) ==
  LET matrix_key == Join(factors)
  IN  IF Has(decision_matrix, matrix_key) THEN Ok(decision_matrix[matrix_key])
      ELSE IF Has(decision_matrix, "default")
      THEN Ok(decision_matrix["default"])
      ELSE Err("NoMatrixEntry")

(* a loop that leaves out the factors that fail *)
RECURSIVE EvaluateFactorsSkipping(_, _)
EvaluateFactorsSkipping(factors_def, pd) ==
  IF factors_def = <<>> THEN Ok(<<>>)
  ELSE LET result == evaluate_factor(Head(factors_def), pd)
           rest == EvaluateFactorsSkipping(Tail(factors_def), pd)
       IN  IF ~result.ok THEN rest
           ELSE Ok(<<result.val>> \o rest.val)

(* The loop of evaluate_decision_point over factors_def: the list of the   *)
(* results, or the error of the first factor that fails.                   *)
RECURSIVE EvaluateFactors(_, _)
EvaluateFactors(factors_def, pd) ==
  IF factors_def = <<>> THEN Ok(<<>>)
  ELSE LET result == evaluate_factor(Head(factors_def), pd)
       IN  IF ~result.ok THEN result
           ELSE LET rest == EvaluateFactors(Tail(factors_def), pd)
                IN  IF ~rest.ok THEN rest
                    ELSE Ok(<<result.val>> \o rest.val)

(* evaluate_decision_point that answers with the outcome of the first *)
(* branch of the step when it has one                                  *)
evaluate_decision_point_by_branch(decision_step, pd) ==
  IF Missing(decision_step, "evaluation_rules")
  THEN Err("MissingEvaluationRules")
  ELSE IF ~Missing(decision_step, "branch_outcomes")
  THEN Ok(decision_step.branch_outcomes[1].outcome_id)
  ELSE IF Missing(decision_step.evaluation_rules, "factor")
  THEN Err("MissingFactorDefinition")
  ELSE evaluate_factor(decision_step.evaluation_rules.factor, pd)

evaluate_decision_point(decision_step, pd) ==
  IF Missing(decision_step, "evaluation_rules")
  THEN Err("MissingEvaluationRules")
  ELSE LET rules == decision_step.evaluation_rules
           rule_type == Get(rules, "type", "None")
       IN  IF rule_type = "single_factor"
           THEN IF Missing(rules, "factor")
                THEN Err("MissingFactorDefinition")
                ELSE evaluate_factor(rules.factor, pd)
           ELSE IF rule_type = "multi_factor"
           THEN IF Missing(rules, "factors") \/ Missing(rules, "decision_matrix")
                THEN Err("MissingFactorsOrMatrix")
                ELSE LET factor_results == EvaluateFactors(rules.factors, pd)
                     IN  IF ~factor_results.ok THEN factor_results
                         ELSE combine_factors(factor_results.val,
                                              rules.decision_matrix)
           ELSE Err("UnknownRuleType")

(***************************************************************************)
(* protocol_engine.py, get_next_step.  patient_data is Dict(d), or NoneV   *)
(* when the caller passes none.                                            *)
(***************************************************************************)
(* a lookup that takes the first branch whatever the outcome *)
FirstBranch(branch_outcomes, outcome_id) ==
  IF branch_outcomes = <<>> THEN NoneV
  ELSE IF Has(Head(branch_outcomes), "next_step_order")
       THEN Num(Head(branch_outcomes).next_step_order)
       ELSE NoneV

RECURSIVE FindOutcome(_, _)
FindOutcome(branch_outcomes, outcome_id) ==
  IF branch_outcomes = <<>> THEN NoneV
  ELSE IF Get(Head(branch_outcomes), "outcome_id", "None") = outcome_id
       THEN IF Has(Head(branch_outcomes), "next_step_order")
            THEN Num(Head(branch_outcomes).next_step_order)
            ELSE NoneV
       ELSE FindOutcome(Tail(branch_outcomes), outcome_id)

(* a scan that settles for the first step at or after the order *)
RECURSIVE FindStepFromOrder(_, _)
FindStepFromOrder(steps, order) ==
  IF steps = <<>> THEN NoStep
  ELSE IF Head(steps).sequence_order >= order THEN Some(Head(steps))
       ELSE FindStepFromOrder(Tail(steps), order)

RECURSIVE FindStepWithOrder(_, _)
FindStepWithOrder(steps, order) ==
  IF steps = <<>> THEN NoStep
  ELSE IF Head(steps).sequence_order = order THEN Some(Head(steps))
       ELSE FindStepWithOrder(Tail(steps), order)

(* get_next_step that goes to the step listed after the current one, *)
(* whatever the kind of the current step                              *)
get_next_step_by_position(proto, current_step, pd) ==
  LET later == SelectSeq(proto.steps,
                         LAMBDA st : st.sequence_order
                                       > current_step.sequence_order)
  IN  IF later = <<>> THEN Ok(NoStep) ELSE Ok(Some(Head(later)))

get_next_step(proto, current_step, pd) ==
  IF current_step.step_type = "decision_point"
  THEN IF pd.t = "none" THEN Err("MissingPatientData")
       ELSE LET outcome == evaluate_decision_point(current_step, pd.v)
            IN  IF ~outcome.ok THEN outcome
                ELSE IF Missing(current_step, "branch_outcomes")
                THEN Err("MissingBranchOutcomes")
                ELSE LET next_step_order ==
                           FindOutcome(current_step.branch_outcomes,
                                       outcome.val)
                     IN  IF next_step_order.t = "none"
                         THEN Err("NoBranchForOutcome")
                         ELSE LET step == FindStepWithOrder(
                                            proto.steps, next_step_order.v)
                              IN  IF step.some THEN Ok(step)
                                  ELSE Err("NoStepAtSequence")
  ELSE LET next_order == current_step.sequence_order + 1
       IN  Ok(FindStepWithOrder(proto.steps, next_order))

(***************************************************************************)
(* The treatment plan the engine is handed: the protocol and the sessions  *)
(* of the plan.                                                            *)
(***************************************************************************)
Plan == [protocol |-> protocol, sessions |-> sessions]

(* the plan after a step of the system *)
PlanNext == [protocol |-> protocol', sessions |-> sessions']

(***************************************************************************)
(* Inputs.  Protocol.steps is loaded ordered by sequence_order             *)
(* (models/protocol.py, the order_by of the relationship); sequence orders *)
(* are unique within a protocol and may leave gaps; step ids are primary   *)
(* keys, given in order of creation, which need not be the sequence order. *)
(***************************************************************************)
IncreasingOrders(n) ==
  {f \in [1..n -> 1..MaxOrder] : \A i, j \in 1..n : i < j => f[i] < f[j]}

(* ids given in sequence order, or in the opposite order *)
StepIdOrders(n) == {[k \in 1..n |-> k], [k \in 1..n |-> n + 1 - k]}

LinearStep(id, order) ==
  [id |-> id, sequence_order |-> order, step_type |-> "preparation",
   safety_checks |-> <<>>]

LinearProtocols ==
  UNION {{[steps |-> [k \in 1..n |-> LinearStep(ids[k], orders[k])]] :
            orders \in IncreasingOrders(n), ids \in StepIdOrders(n)} :
         n \in 1..MaxSteps}

NoPatient == [age |-> Num(35)]

(* TreatmentSession(...): scheduled_at aside, the row a caller inserts;    *)
(* actual_start and actual_end say whether the timestamp is set.           *)
NewSession(step_id, status) ==
  [protocol_step_id |-> step_id,
   status |-> status,
   actual_start |-> status \in {"in_progress", "completed"},
   actual_end |-> status = "completed"]

(***************************************************************************)
(* Actions on the sessions of the plan.                                    *)
(***************************************************************************)
(* A caller records a session row for a step, of this protocol or not      *)
(* (step id 0), in any status.                                             *)
AddSession(step_id, status) ==
  /\ Len(sessions) < MaxSessions
  /\ step_id <= Len(protocol.steps)
  /\ sessions' = Append(sessions, NewSession(step_id, status))
  /\ res' = NoRes
  /\ UNCHANGED <<protocol, patient_data, calls>>

(* api/v1/therapists.py, complete_session *)
CompleteSession(i) ==
  /\ i \in DOMAIN sessions
  /\ IF sessions[i].status = "completed"
     THEN /\ res' = [op |-> "complete_session", session |-> i, ok |-> FALSE,
                     detail |-> "Session is already completed"]
          /\ UNCHANGED sessions
     ELSE IF sessions[i].status = "cancelled"
     THEN /\ res' = [op |-> "complete_session", session |-> i, ok |-> FALSE,
                     detail |-> "Cannot complete a cancelled session"]
          /\ UNCHANGED sessions
     ELSE /\ sessions' = [sessions EXCEPT ![i] =
                            [@ EXCEPT !.status = "completed",
                                      !.actual_end = TRUE,
                                      !.actual_start = TRUE]]
          /\ res' = [op |-> "complete_session", session |-> i, ok |-> TRUE,
                     detail |-> "Session completed successfully"]
  /\ UNCHANGED <<protocol, patient_data, calls>>

(***************************************************************************)
(* Calls of the engine: the result is left in res.                         *)
(* get_current_step that records the step it returns as completed *)
GetCurrentStepRecording ==
  /\ res' = [op |-> "get_current_step", val |-> get_current_step(Plan)]
  /\ sessions' =
       IF get_current_step(Plan).some /\ Len(sessions) < MaxSessions
       THEN Append(sessions,
                   NewSession(get_current_step(Plan).step.id, "completed"))
       ELSE sessions
  /\ UNCHANGED <<protocol, patient_data, calls>>

(***************************************************************************)
GetCurrentStep ==
  /\ res' = [op |-> "get_current_step", val |-> get_current_step(Plan)]
  /\ UNCHANGED <<protocol, sessions, patient_data, calls>>

IsProtocolComplete ==
  /\ res' = [op |-> "is_protocol_complete", val |-> is_protocol_complete(Plan)]
  /\ UNCHANGED <<protocol, sessions, patient_data, calls>>

(***************************************************************************)
(* Step navigation over recorded sessions.                                 *)
(***************************************************************************)
InitNav ==
  /\ protocol \in LinearProtocols
  /\ sessions = <<>>
  /\ patient_data = NoPatient
  /\ res = NoRes
  /\ calls = <<>>

NextNav ==
  \/ \E step_id \in 0..MaxSteps, status \in SessionStatus :
        AddSession(step_id, status)
  \/ \E i \in 1..MaxSessions : CompleteSession(i)
  \/ GetCurrentStep
  \/ IsProtocolComplete

SpecNav == InitNav /\ [][NextNav]_vars

(***************************************************************************)
(* Safety checks and patients, after the cases of                          *)
(* tests/test_services/test_safety_service.py.                             *)
(***************************************************************************)
F20 == <<"F", "2", "0">>

F20_0 == <<"F", "2", "0", ".", "0">>

F31 == <<"F", "3", "1">>

F31_0 == <<"F", "3", "1", ".", "0">>

MAOI == <<"M", "A", "O", "I">>

SSRI == <<"S", "S", "R", "I">>

CheckSchizophrenia ==
  [check_type |-> "absolute_contraindication",
   condition |-> [type |-> "diagnosis", value |-> F20, operator |-> "contains"],
   severity |-> "blocking",
   override_allowed |-> "false"]

CheckMAOI ==
  [check_type |-> "absolute_contraindication",
   condition |->
     [type |-> "medication", value |-> MAOI, operator |-> "class_match"],
   severity |-> "blocking",
   override_allowed |-> "true"]

CheckBipolar ==
  [check_type |-> "relative_contraindication",
   condition |-> [type |-> "diagnosis", value |-> F31, operator |-> "contains"],
   severity |-> "warning",
   override_allowed |-> "true"]

CheckBloodPressure ==
  [check_type |-> "relative_contraindication",
   condition |->
     [type |-> "vital_sign", name |-> "blood_pressure_systolic",
      operator |-> "greater_than", threshold |-> 140],
   severity |-> "warning",
   override_allowed |-> "false"]

CheckAge ==
  [check_type |-> "risk_factor",
   condition |->
     [type |-> "age", operator |-> "greater_than", threshold |-> 65],
   severity |-> "info",
   override_allowed |-> "false"]

SafetyChecks ==
  <<CheckSchizophrenia, CheckMAOI, CheckBipolar, CheckBloodPressure, CheckAge>>

PatientHealthy ==
  [age |-> Num(28), diagnoses |-> List(<<>>), medications |-> List(<<>>),
   vital_signs |-> Dict([blood_pressure_systolic |-> Num(120)])]

PatientPsychosis ==
  [age |-> Num(32),
   diagnoses |-> List(<<Str(F20_0)>>),
   medications |->
     List(<<Dict([name |-> Str(<<"P">>), class |-> Str(MAOI)])>>)]

PatientBipolar ==
  [age |-> Num(70),
   diagnoses |-> List(<<Str(F31_0)>>),
   medications |->
     List(<<Dict([name |-> Str(<<"S">>), class |-> Str(SSRI)])>>),
   vital_signs |-> Dict([blood_pressure_systolic |-> Num(155)])]

PatientMixed ==
  [age |-> Num(70),
   diagnoses |-> List(<<Str(F31_0), Str(F20_0)>>),
   medications |-> List(<<>>),
   vital_signs |-> Dict([blood_pressure_systolic |-> Num(155)])]

SafetyPatients ==
  {PatientHealthy, PatientPsychosis, PatientBipolar, PatientMixed}

SafetyStep(id, order, checks) ==
  [id |-> id, sequence_order |-> order, step_type |-> "dosing",
   safety_checks |-> checks]

RECURSIVE CountChecks(_)
CountChecks(steps) ==
  IF steps = <<>> THEN 0
  ELSE Len(Head(steps).safety_checks) + CountChecks(Tail(steps))

(* api/v1/admin.py, add_safety_check *)
AddSafetyCheck(k, safety_check) ==
  /\ k \in DOMAIN protocol.steps
  /\ CountChecks(protocol.steps) < MaxChecks
  /\ protocol' =
       [protocol EXCEPT !.steps[k].safety_checks = Append(@, safety_check)]
  /\ res' = NoRes
  /\ UNCHANGED <<sessions, patient_data, calls>>

CheckContraindications(k) ==
  /\ k \in DOMAIN protocol.steps
  /\ res' = [op |-> "check_contraindications", step |-> k,
             val |-> check_contraindications(
                       patient_data, protocol.steps[k].safety_checks)]
  /\ UNCHANGED <<protocol, sessions, patient_data, calls>>

CanProgressToStep(k) ==
  /\ k \in DOMAIN protocol.steps
  /\ res' = [op |-> "can_progress_to_step", step |-> k,
             val |-> can_progress_to_step(Plan, protocol.steps[k],
                                          patient_data)]
  /\ UNCHANGED <<protocol, sessions, patient_data, calls>>

(***************************************************************************)
(* Safety evaluation of the steps of a protocol whose safety checks an     *)
(* administrator adds one by one.                                          *)
(***************************************************************************)
InitSafety ==
  /\ protocol = [steps |-> <<SafetyStep(2, 1, <<>>), SafetyStep(1, 2, <<>>)>>]
  /\ sessions = <<>>
  /\ patient_data \in SafetyPatients
  /\ res = NoRes
  /\ calls = <<>>

NextSafety ==
  \/ \E k \in 1..2, c \in 1..Len(SafetyChecks) :
        AddSafetyCheck(k, SafetyChecks[c])
  \/ \E k \in 1..2 : CheckContraindications(k)
  \/ \E k \in 1..2 : CanProgressToStep(k)

SpecSafety == InitSafety /\ [][NextSafety]_vars

(***************************************************************************)
(* Risk scoring of a step with any number of blocking, warning and info    *)
(* checks.                                                                 *)
(***************************************************************************)
Repeat(x, n) == [i \in 1..n |-> x]

InitRisk ==
  /\ \E nb \in 0..MaxBlockers, nw \in 0..MaxWarnings, ni \in 0..MaxInfos :
        protocol =
          [steps |-> <<SafetyStep(1, 1,
                         Repeat(CheckSchizophrenia, nb)
                           \o Repeat(CheckBipolar, nw)
                           \o Repeat(CheckAge, ni))>>]
  /\ sessions = <<>>
  /\ patient_data \in {PatientHealthy, PatientBipolar, PatientMixed}
  /\ res = NoRes
  /\ calls = <<>>

NextRisk == CheckContraindications(1)

SpecRisk == InitRisk /\ [][NextRisk]_vars

(***************************************************************************)
(* Decision points, after the fixtures of                                  *)
(* tests/test_services/test_protocol_execution.py (a severity score in     *)
(* three ranges) and tests/test_services/test_protocol_engine.py (weight   *)
(* and anxiety combined by a decision matrix).  The factor "s" is the      *)
(* score, "p.w" the weight of the patient.                                 *)
(***************************************************************************)
RulesSeverity ==
  [type |-> "single_factor",
   factor |->
     [factor |-> <<"s">>,
      operator |-> "in_range",
      ranges |-> <<[min |-> 0, max |-> 1, value |-> "mild"],
                   [min |-> 1, max |-> 2, value |-> "moderate"],
                   [min |-> 2, max |-> 3, value |-> "severe"]>>]]

DosingFactors ==
  <<[factor |-> <<"p", ".", "w">>,
     operator |-> "in_range",
     ranges |-> <<[min |-> 0, max |-> 2, value |-> "low_weight"],
                  [min |-> 2, max |-> 9, value |-> "normal_weight"]>>],
    [factor |-> <<"s">>,
     operator |-> "threshold",
     thresholds |-> <<[max |-> 2, value |-> "low_anxiety"],
                      [min |-> 2, value |-> "high_anxiety"]>>]>>

RulesDosing ==
  [type |-> "multi_factor",
   factors |-> DosingFactors,
   decision_matrix |->
     [k \in {"low_weight + high_anxiety", "default"} |->
        IF k = "default" THEN "mild" ELSE "severe"]]

RulesDosingNoDefault ==
  [type |-> "multi_factor",
   factors |-> DosingFactors,
   decision_matrix |->
     [k \in {"low_weight + high_anxiety"} |-> "severe"]]

EvaluationRules == {RulesSeverity, RulesDosing, RulesDosingNoDefault}

ScoredPatient(score, weight) ==
  [s |-> Num(score), p |-> Dict([w |-> Num(weight)])]

DecisionPatients ==
  {ScoredPatient(score, 1) : score \in 0..MaxScore}
    \cup {ScoredPatient(2, 3), [p |-> Dict([w |-> Num(1)])]}

(* a score that is text, and a patient that is not a dictionary *)
MistypedPatient == [s |-> Str(<<"x">>), p |-> Num(1)]

(* the entries of a branch table: an outcome and the sequence order of the *)
(* step to go to, which the protocol may not have; or an outcome alone     *)
BranchLabels == {"mild", "severe"}

BranchEntries ==
  {[outcome_id |-> o, next_step_order |-> t] :
     o \in BranchLabels, t \in 1..(MaxOrder + 1)}
    \cup {[outcome_id |-> "mild"]}

(* the tables with at most one entry for each label, in any order, and *)
(* those that list a label twice                                       *)
BranchTables ==
  UNION {[1..n -> BranchEntries] : n \in 0..Cardinality(BranchLabels)}

(* a decision point: evaluation_rules and branch_outcomes may be missing *)
DecisionSteps(id, order) ==
  LET base == [id |-> id, sequence_order |-> order,
               step_type |-> "decision_point", safety_checks |-> <<>>]
  IN  {base}
        \cup {base @@ [evaluation_rules |-> r] : r \in EvaluationRules}
        \cup {base @@ [branch_outcomes |-> b] : b \in BranchTables}
        \cup {base @@ [evaluation_rules |-> r, branch_outcomes |-> b] :
                r \in EvaluationRules, b \in BranchTables}

(* the protocols with one decision point, at position d *)
DecisionProtocols ==
  UNION {UNION {{[steps |->
                    [k \in 1..n |->
                       IF k = d THEN ds
                       ELSE LinearStep(n + 1 - k, orders[k])]] :
                   ds \in DecisionSteps(n + 1 - d, orders[d])} :
                orders \in IncreasingOrders(n), d \in 1..n} :
         n \in 1..MaxSteps}

GetNextStep(k, given) ==
  /\ k \in DOMAIN protocol.steps
  /\ res' = [op |-> "get_next_step", step |-> k, given |-> given,
             val |-> get_next_step(protocol, protocol.steps[k],
                                   IF given THEN Dict(patient_data)
                                   ELSE NoneV)]
  /\ UNCHANGED <<protocol, sessions, patient_data, calls>>

(***************************************************************************)
(* The next step of a step of a protocol with a decision point.            *)
(***************************************************************************)
InitStep ==
  /\ protocol \in DecisionProtocols
  /\ sessions = <<>>
  /\ \/ patient_data \in DecisionPatients
     \/ patient_data = MistypedPatient
  /\ res = NoRes
  /\ calls = <<>>

NextStep == \E k \in 1..MaxSteps, given \in BOOLEAN : GetNextStep(k, given)

SpecStep == InitStep /\ [][NextStep]_vars

(***************************************************************************)
(* demo_protocol_execution.py, one turn of the loop of                     *)
(* demo_linear_protocol_execution: the current step is put to              *)
(* can_progress_to_step, and a completed session is recorded for it when   *)
(* it may progress; the loop stops when it may not.                        *)
(***************************************************************************)
ExecuteStep ==
  /\ get_current_step(Plan).some
  /\ Len(sessions) < MaxSessions
  /\ res' = [op |-> "execute_step",
             step |-> get_current_step(Plan).step.id,
             val |-> can_progress_to_step(Plan, get_current_step(Plan).step,
                                          patient_data)]
  /\ sessions' =
       IF ~can_progress_to_step(Plan, get_current_step(Plan).step,
                                patient_data).can_progress
       THEN sessions
       ELSE Append(sessions,
                   NewSession(get_current_step(Plan).step.id, "completed"))
  /\ UNCHANGED <<protocol, patient_data, calls>>

(***************************************************************************)
(* The sessions of a plan over a protocol with safety checks: sessions are *)
(* scheduled, a therapist completes them, and the execution loop records   *)
(* completed sessions.                                                     *)
(***************************************************************************)
FlowChecks == {<<>>, <<CheckSchizophrenia>>, <<CheckBipolar, CheckMAOI>>}

FlowProtocols ==
  UNION {{[steps |-> [k \in 1..n |->
                        SafetyStep(n + 1 - k, orders[k], checks[k])]] :
            orders \in IncreasingOrders(n), checks \in [1..n -> FlowChecks]} :
         n \in 1..MaxSteps}

FlowPatients == {PatientHealthy, PatientPsychosis, PatientBipolar}

InitFlow ==
  /\ protocol \in FlowProtocols
  /\ sessions = <<>>
  /\ patient_data \in FlowPatients
  /\ res = NoRes
  /\ calls = <<>>

NextFlow ==
  \/ \E step_id \in 1..MaxSteps : AddSession(step_id, "scheduled")
  \/ \E i \in 1..MaxSessions : CompleteSession(i)
  \/ ExecuteStep

SpecFlow == InitFlow /\ [][NextFlow]_vars

(***************************************************************************)
(* The range operators.  A decision point with one factor on the score     *)
(* "s", read with in_range from "ranges" or with threshold from            *)
(* "thresholds"; the ranges have bounds on a small grid, in any order and  *)
(* with repetitions, and the label of a range names its bounds.            *)
(***************************************************************************)
RangeLabel(lo, hi) == ToString(lo) \o "-" \o ToString(hi)

RangeDefs ==
  UNION {{[min |-> lo, max |-> hi, value |-> RangeLabel(lo, hi)] :
            hi \in lo..MaxBound} : lo \in 0..MaxBound}
    \cup {[max |-> 1, value |-> "low"], [min |-> 1, value |-> "high"]}

RangeLists == UNION {[1..n -> RangeDefs] : n \in 1..MaxRanges}

RangeFactor(operator, ranges) ==
  IF operator = "in_range"
  THEN [factor |-> <<"s">>, operator |-> operator, ranges |-> ranges]
  ELSE [factor |-> <<"s">>, operator |-> operator, thresholds |-> ranges]

FactorStep(factor_def) ==
  [id |-> 1, sequence_order |-> 1, step_type |-> "decision_point",
   safety_checks |-> <<>>,
   evaluation_rules |-> [type |-> "single_factor", factor |-> factor_def]]

RangeSteps ==
  {FactorStep(RangeFactor(operator, ranges)) :
     operator \in {"in_range", "threshold"}, ranges \in RangeLists}

EvaluateDecisionPoint(k) ==
  /\ k \in DOMAIN protocol.steps
  /\ protocol.steps[k].step_type = "decision_point"
  /\ res' = [op |-> "evaluate_decision_point", step |-> k,
             val |-> evaluate_decision_point(protocol.steps[k],
                                             patient_data)]
  /\ UNCHANGED <<protocol, sessions, patient_data, calls>>

InitRange ==
  /\ protocol \in {[steps |-> <<st>>] : st \in RangeSteps}
  /\ sessions = <<>>
  /\ patient_data \in {[s |-> Num(score)] : score \in -1..(MaxBound + 1)}
  /\ res = NoRes
  /\ calls = <<>>

NextRange == EvaluateDecisionPoint(1)

SpecRange == InitRange /\ [][NextRange]_vars

(***************************************************************************)
(* Multi-factor decision points.  Factors on the score "s", the weight     *)
(* "p.w" and the flag "b", which all answer "low" or "high"; the second    *)
(* flag factor declares no false_value.  A rule lists up to MaxFactors of  *)
(* them in any order, and its matrix has any of four keys.                 *)
(***************************************************************************)
ScoreFactor ==
  [factor |-> <<"s">>,
   operator |-> "threshold",
   thresholds |-> <<[max |-> 2, value |-> "low"],
                    [min |-> 2, value |-> "high"]>>]

WeightFactor ==
  [factor |-> <<"p", ".", "w">>,
   operator |-> "in_range",
   ranges |-> <<[min |-> 0, max |-> 2, value |-> "low"],
                [min |-> 2, max |-> 4, value |-> "high"]>>]

FlagFactor ==
  [factor |-> <<"b">>, operator |-> "boolean",
   true_value |-> "high", false_value |-> "low"]

FlagFactorTrueOnly ==
  [factor |-> <<"b">>, operator |-> "boolean", true_value |-> "high"]

MatrixFactors == {ScoreFactor, WeightFactor, FlagFactor, FlagFactorTrueOnly}

FactorLists == UNION {[1..n -> MatrixFactors] : n \in 1..MaxFactors}

MatrixEntries ==
  [k \in {"low + high", "high + low", "high + high", "default"} |->
     IF k = "low + high" THEN "dose_15mg"
     ELSE IF k = "high + low" THEN "dose_20mg"
     ELSE IF k = "high + high" THEN "dose_25mg"
     ELSE "dose_10mg"]

(* the matrices with some of the entries, the empty one included *)
DecisionMatrices ==
  {[k \in keys |-> MatrixEntries[k]] : keys \in SUBSET DOMAIN MatrixEntries}

MatrixStep(factors, decision_matrix) ==
  [id |-> 1, sequence_order |-> 1, step_type |-> "decision_point",
   safety_checks |-> <<>>,
   evaluation_rules |-> [type |-> "multi_factor", factors |-> factors,
                         decision_matrix |-> decision_matrix]]

(* a weight of 5 is in no range, and a flag of 1 is not a boolean *)
MatrixPatients ==
  {[p |-> Dict([w |-> Num(weight)]), b |-> flag] :
     weight \in {1, 3, 5}, flag \in {Bool(TRUE), Bool(FALSE)}}
    \cup {[s |-> Num(score), p |-> Dict([w |-> Num(weight)]), b |-> flag] :
            score \in {1, 3}, weight \in {1, 3, 5},
            flag \in {Bool(TRUE), Bool(FALSE)}}

InitMatrix ==
  /\ protocol \in {[steps |-> <<MatrixStep(factors, decision_matrix)>>] :
                     factors \in FactorLists,
                     decision_matrix \in DecisionMatrices}
  /\ sessions = <<>>
  /\ patient_data \in MatrixPatients
  /\ res = NoRes
  /\ calls = <<>>

NextMatrix == EvaluateDecisionPoint(1)

SpecMatrix == InitMatrix /\ [][NextMatrix]_vars

(***************************************************************************)
(* Single factors on nested patient data.  The factor reads the flag "b"   *)
(* under up to MaxDepth - 1 nested dicts "p", with the boolean operator    *)
(* (with both labels, one of them, or none) or with equals; the patient    *)
(* data hold a value of one of the JSON types under "b" or "p" at some     *)
(* depth.                                                                  *)
(***************************************************************************)
RECURSIVE PathOfDepth(_)
PathOfDepth(depth) ==
  IF depth = 1 THEN <<"b">> ELSE <<"p", ".">> \o PathOfDepth(depth - 1)

BooleanFactors(path) ==
  {[factor |-> path, operator |-> "boolean",
    true_value |-> "yes", false_value |-> "no"],
   [factor |-> path, operator |-> "boolean", true_value |-> "yes"],
   [factor |-> path, operator |-> "boolean", false_value |-> "no"],
   [factor |-> path, operator |-> "boolean"]}

EqualsFactor(path) ==
  [factor |-> path, operator |-> "equals",
   conditions |-> <<[value |-> Num(1), result |-> "one"],
                    [value |-> Num(0), result |-> "zero"]>>]

PathFactors ==
  UNION {BooleanFactors(PathOfDepth(depth)) \cup
           {EqualsFactor(PathOfDepth(depth))} : depth \in 1..MaxDepth}

(* the document with the leaf under the key, inside depth - 1 dicts "p" *)
RECURSIVE Nest(_, _, _)
Nest(depth, key, leaf) ==
  IF depth = 1 THEN [k \in {key} |-> leaf]
  ELSE [k \in {"p"} |-> Dict(Nest(depth - 1, key, leaf))]

(* the patient data are such a document, for some depth and key *)
NestedPatient(leaf) ==
  \E depth \in 1..MaxDepth, key \in {"b", "p"} :
    patient_data = Nest(depth, key, leaf)

InitFactor ==
  /\ protocol \in {[steps |-> <<FactorStep(factor_def)>>] :
                     factor_def \in PathFactors}
  /\ sessions = <<>>
  /\ \/ NestedPatient(Bool(TRUE))
     \/ NestedPatient(Bool(FALSE))
     \/ NestedPatient(Num(1))
     \/ NestedPatient(Num(0))
     \/ NestedPatient(Str(<<"y">>))
     \/ NestedPatient(List(<<Bool(TRUE)>>))
     \/ NestedPatient(NoneV)
  /\ res = NoRes
  /\ calls = <<>>

NextFactor == EvaluateDecisionPoint(1)

SpecFactor == InitFactor /\ [][NextFactor]_vars

(***************************************************************************)
(* The evaluation of one decision point, with any of the evaluation rules  *)
(* and branch tables of the protocols above.                               *)
(***************************************************************************)
InitDecide ==
  /\ protocol \in {[steps |-> <<ds>>] : ds \in DecisionSteps(1, 1)}
  /\ sessions = <<>>
  /\ \/ patient_data \in DecisionPatients
     \/ patient_data = MistypedPatient
  /\ res = NoRes
  /\ calls = <<>>

NextDecide == EvaluateDecisionPoint(1)

SpecDecide == InitDecide /\ [][NextDecide]_vars

(***************************************************************************)
(* Safety checks on readings.  Rules on the lab value "ALT" and on the     *)
(* vital sign "heart_rate", of every severity and operator, alone or in    *)
(* pairs; the patient data have no lab_values (or vital_signs) at all,     *)
(* have them with another reading only, or have the reading, below or      *)
(* above the threshold.                                                    *)
(***************************************************************************)
LabChecks ==
  {[check_type |-> "risk_factor",
    condition |-> [type |-> "lab_value", name |-> "ALT",
                   operator |-> operator, threshold |-> 40],
    severity |-> severity,
    override_allowed |-> "false"] :
     operator \in {"greater_than", "less_than", "equals"},
     severity \in {"blocking", "warning", "info"}}

VitalChecks ==
  {[check_type |-> "risk_factor",
    condition |-> [type |-> "vital_sign", name |-> "heart_rate",
                   operator |-> operator, threshold |-> 100],
    severity |-> severity,
    override_allowed |-> "false"] :
     operator \in {"greater_than", "less_than"},
     severity \in {"blocking", "warning", "info"}}

ReadingCheckLists ==
  {<<c>> : c \in LabChecks \cup VitalChecks}
    \cup {<<l, v>> : l \in LabChecks, v \in VitalChecks}
    \cup {<<v, l>> : l \in LabChecks, v \in VitalChecks}

Readings == {"none", "other", "low", "high"}

LabValues(reading) ==
  IF reading = "other" THEN Dict([AST |-> Num(25)])
  ELSE IF reading = "low" THEN Dict([ALT |-> Num(30), AST |-> Num(25)])
  ELSE Dict([ALT |-> Num(55)])

VitalSigns(reading) ==
  IF reading = "other" THEN Dict([temperature |-> Num(37)])
  ELSE IF reading = "low" THEN Dict([heart_rate |-> Num(60)])
  ELSE Dict([heart_rate |-> Num(120), temperature |-> Num(37)])

ReadingsPatient(lab, vital) ==
  LET base == [age |-> Num(40)]
      with_lab == IF lab = "none" THEN base
                  ELSE base @@ [lab_values |-> LabValues(lab)]
  IN  IF vital = "none" THEN with_lab
      ELSE with_lab @@ [vital_signs |-> VitalSigns(vital)]

InitReadings ==
  /\ protocol \in {[steps |-> <<SafetyStep(1, 1, checks)>>] :
                     checks \in ReadingCheckLists}
  /\ sessions = <<>>
  /\ \E lab \in Readings, vital \in Readings :
       patient_data = ReadingsPatient(lab, vital)
  /\ res = NoRes
  /\ calls = <<>>

NextReadings == CheckContraindications(1)

SpecReadings == InitReadings /\ [][NextReadings]_vars

(***************************************************************************)
(* Safety evaluation of one step whose list of safety checks is any list   *)
(* of the five checks, repetitions included.                               *)
(***************************************************************************)
CheckLists == UNION {[1..n -> Range(SafetyChecks)] : n \in 0..MaxChecks}

InitOrder ==
  /\ protocol \in {[steps |-> <<SafetyStep(1, 1, checks)>>] :
                     checks \in CheckLists}
  /\ sessions = <<>>
  /\ patient_data \in SafetyPatients
  /\ res = NoRes
  /\ calls = <<>>

NextOrder == CheckContraindications(1)

SpecOrder == InitOrder /\ [][NextOrder]_vars

(***************************************************************************)
(* Comparison of a reading with a threshold.  One check on the lab value   *)
(* "ALT" or on the vital sign "heart_rate", with each of the operators     *)
(* greater_than, less_than and equals, a threshold on a small grid and any *)
(* severity; the patient data have both readings, below, at or above the   *)
(* threshold.                                                              *)
(***************************************************************************)
ReadingName(type) == IF type = "lab_value" THEN "ALT" ELSE "heart_rate"

ComparisonChecks ==
  {[check_type |-> "risk_factor",
    condition |-> [type |-> type, name |-> ReadingName(type),
                   operator |-> operator, threshold |-> threshold],
    severity |-> severity,
    override_allowed |-> "false"] :
     type \in {"lab_value", "vital_sign"},
     operator \in {"greater_than", "less_than", "equals"},
     threshold \in 0..MaxBound,
     severity \in {"blocking", "warning", "info"}}

ComparedPatient(lab, vital) ==
  [lab_values |-> Dict([ALT |-> Num(lab)]),
   vital_signs |-> Dict([heart_rate |-> Num(vital)])]

InitCompare ==
  /\ protocol \in {[steps |-> <<SafetyStep(1, 1, <<c>>)>>] :
                     c \in ComparisonChecks}
  /\ sessions = <<>>
  /\ patient_data \in {ComparedPatient(lab, vital) :
                         lab \in -1..(MaxBound + 1),
                         vital \in -1..(MaxBound + 1)}
  /\ res = NoRes
  /\ calls = <<>>

NextCompare == CheckContraindications(1)

SpecCompare == InitCompare /\ [][NextCompare]_vars

(***************************************************************************)
(* Calls in flight.  calls is the list of the calls of the engine and of   *)
(* the safety service that were started: a call holds its arguments, the   *)
(* position of its loop, the lists its loop appends to, and its result     *)
(* once it has returned.  The loop of evaluate_decision_point over the     *)
(* factors and the loop of check_contraindications over the safety checks  *)
(* advance one iteration at a time, so that the calls of different         *)
(* requests interleave.                                                    *)
(***************************************************************************)
MaxCalls == 2

(* the call whose lists the loop of call c appends to, were the lists *)
(* attributes of one engine object that the calls share               *)
LocalsOfEngine(c) == 1

(* factor_results, contraindications, warnings and risk_factors are local *)
(* variables of the call                                                  *)
LocalsOf(c) == c

NewCall(op, step, pd) ==
  [op |-> op, step |-> step, pd |-> pd, i |-> 1, done |-> FALSE,
   factor_results |-> <<>>,
   contraindications |-> <<>>, warnings |-> <<>>, risk_factors |-> <<>>]

Returned(call, val) == [val |-> val] @@ [call EXCEPT !.done = TRUE]

(* evaluate_decision_point comes to its loop over the factors *)
ReachesFactorLoop(decision_step) ==
  /\ ~Missing(decision_step, "evaluation_rules")
  /\ Get(decision_step.evaluation_rules, "type", "None") = "multi_factor"
  /\ ~Missing(decision_step.evaluation_rules, "factors")
  /\ ~Missing(decision_step.evaluation_rules, "decision_matrix")

(* get_next_step of a decision point, from the outcome on *)
get_next_step_of_outcome(proto, current_step, outcome) ==
  IF ~outcome.ok THEN outcome
  ELSE IF Missing(current_step, "branch_outcomes")
  THEN Err("MissingBranchOutcomes")
  ELSE LET next_step_order ==
             FindOutcome(current_step.branch_outcomes, outcome.val)
       IN  IF next_step_order.t = "none" THEN Err("NoBranchForOutcome")
           ELSE LET step == FindStepWithOrder(proto.steps, next_step_order.v)
                IN  IF step.some THEN Ok(step) ELSE Err("NoStepAtSequence")

(* the first statements of a call, up to the loop; a call that has no *)
(* loop to run returns at once                                        *)
StartCall(op, step, pd, loops, val) ==
  /\ Len(calls) < MaxCalls
  /\ calls' =
       IF ~loops THEN Append(calls, Returned(NewCall(op, step, pd), val))
       ELSE [Append(calls, NewCall(op, step, pd))
               EXCEPT ![LocalsOf(Len(calls) + 1)].factor_results = <<>>,
                      ![LocalsOf(Len(calls) + 1)].contraindications = <<>>,
                      ![LocalsOf(Len(calls) + 1)].warnings = <<>>,
                      ![LocalsOf(Len(calls) + 1)].risk_factors = <<>>]
  /\ UNCHANGED <<protocol, sessions, patient_data, res>>

CallEvaluateDecisionPoint(k, pd) ==
  /\ k \in DOMAIN protocol.steps
  /\ protocol.steps[k].step_type = "decision_point"
  /\ StartCall("evaluate_decision_point", protocol.steps[k], pd,
               ReachesFactorLoop(protocol.steps[k]),
               evaluate_decision_point(protocol.steps[k], pd))

CallGetNextStep(k, pd) ==
  /\ k \in DOMAIN protocol.steps
  /\ StartCall("get_next_step", protocol.steps[k], pd,
               /\ protocol.steps[k].step_type = "decision_point"
               /\ ReachesFactorLoop(protocol.steps[k]),
               get_next_step(protocol, protocol.steps[k], Dict(pd)))

CallCheckContraindications(k, pd) ==
  /\ k \in DOMAIN protocol.steps
  /\ StartCall("check_contraindications", protocol.steps[k], pd, TRUE, NoneV)

(* one iteration of the loop of evaluate_decision_point *)
EvaluateNextFactor(c) ==
  /\ c \in DOMAIN calls
  /\ ~calls[c].done
  /\ calls[c].op \in {"evaluate_decision_point", "get_next_step"}
  /\ calls[c].i <= Len(calls[c].step.evaluation_rules.factors)
  /\ calls' =
       IF ~evaluate_factor(
             calls[c].step.evaluation_rules.factors[calls[c].i],
             calls[c].pd).ok
       THEN [calls EXCEPT ![c] =
               Returned(@, get_next_step_of_outcome(
                             protocol, calls[c].step,
                             evaluate_factor(
                               calls[c].step.evaluation_rules.factors[
                                 calls[c].i],
                               calls[c].pd)))]
       ELSE [[calls EXCEPT ![c].i = @ + 1]
               EXCEPT ![LocalsOf(c)].factor_results =
                 Append(@, evaluate_factor(
                             calls[c].step.evaluation_rules.factors[
                               calls[c].i],
                             calls[c].pd).val)]
  /\ UNCHANGED <<protocol, sessions, patient_data, res>>

(* after the loop: combine_factors, and for get_next_step the branch *)
ReturnOutcome(c) ==
  /\ c \in DOMAIN calls
  /\ ~calls[c].done
  /\ calls[c].op \in {"evaluate_decision_point", "get_next_step"}
  /\ calls[c].i > Len(calls[c].step.evaluation_rules.factors)
  /\ calls' =
       [calls EXCEPT ![c] =
          Returned(@,
            IF calls[c].op = "evaluate_decision_point"
            THEN combine_factors(
                   calls[LocalsOf(c)].factor_results,
                   calls[c].step.evaluation_rules.decision_matrix)
            ELSE get_next_step_of_outcome(
                   protocol, calls[c].step,
                   combine_factors(
                     calls[LocalsOf(c)].factor_results,
                     calls[c].step.evaluation_rules.decision_matrix)))]
  /\ UNCHANGED <<protocol, sessions, patient_data, res>>

(* the item that check_contraindications files for a triggered check *)
ItemOf(safety_check, pd) ==
  [severity |-> evaluate_safety_check(safety_check, pd).severity,
   override_allowed |->
     evaluate_safety_check(safety_check, pd).override_allowed,
   check_type |-> safety_check.check_type,
   condition |-> safety_check.condition]

(* one iteration of the loop of check_contraindications *)
EvaluateNextCheck(c) ==
  /\ c \in DOMAIN calls
  /\ ~calls[c].done
  /\ calls[c].op = "check_contraindications"
  /\ calls[c].i <= Len(calls[c].step.safety_checks)
  /\ calls' =
       IF ~evaluate_safety_check(calls[c].step.safety_checks[calls[c].i],
                                 calls[c].pd).triggered
       THEN [calls EXCEPT ![c].i = @ + 1]
       ELSE IF calls[c].step.safety_checks[calls[c].i].severity = "blocking"
       THEN [[calls EXCEPT ![c].i = @ + 1]
               EXCEPT ![LocalsOf(c)].contraindications =
                 Append(@, ItemOf(calls[c].step.safety_checks[calls[c].i],
                                  calls[c].pd))]
       ELSE IF calls[c].step.safety_checks[calls[c].i].severity = "warning"
       THEN [[calls EXCEPT ![c].i = @ + 1]
               EXCEPT ![LocalsOf(c)].warnings =
                 Append(@, ItemOf(calls[c].step.safety_checks[calls[c].i],
                                  calls[c].pd))]
       ELSE [[calls EXCEPT ![c].i = @ + 1]
               EXCEPT ![LocalsOf(c)].risk_factors =
                 Append(@, ItemOf(calls[c].step.safety_checks[calls[c].i],
                                  calls[c].pd))]
  /\ UNCHANGED <<protocol, sessions, patient_data, res>>

(* after the loop: the risk score and the result *)
ReturnSafetyResult(c) ==
  /\ c \in DOMAIN calls
  /\ ~calls[c].done
  /\ calls[c].op = "check_contraindications"
  /\ calls[c].i > Len(calls[c].step.safety_checks)
  /\ calls' =
       [calls EXCEPT ![c] =
          Returned(@,
            [eligible |-> Len(calls[LocalsOf(c)].contraindications) = 0,
             risk_score |->
               calculate_risk_score(calls[LocalsOf(c)].contraindications,
                                    calls[LocalsOf(c)].warnings,
                                    calls[LocalsOf(c)].risk_factors),
             contraindications |-> calls[LocalsOf(c)].contraindications,
             warnings |-> calls[LocalsOf(c)].warnings,
             risk_factors |-> calls[LocalsOf(c)].risk_factors])]
  /\ UNCHANGED <<protocol, sessions, patient_data, res>>

(***************************************************************************)
(* Requests for three patients on one protocol: a dosing step with safety  *)
(* checks, a decision point on weight and anxiety whose branches lead to   *)
(* the third step or to a step that the protocol does not have, and a      *)
(* last step.                                                              *)
(***************************************************************************)
CallsProtocols ==
  {[steps |->
      <<SafetyStep(1, 1, <<CheckBipolar, CheckSchizophrenia, CheckAge>>),
        [id |-> 2, sequence_order |-> 2, step_type |-> "decision_point",
         safety_checks |-> <<CheckBloodPressure>>,
         evaluation_rules |-> rules,
         branch_outcomes |->
           <<[outcome_id |-> "mild", next_step_order |-> 3],
             [outcome_id |-> "severe", next_step_order |-> 4]>>],
        LinearStep(3, 3)>>] : rules \in EvaluationRules}

CallsPatients ==
  {ScoredPatient(3, 1) @@ [age |-> Num(70),
                           diagnoses |-> List(<<Str(F31_0), Str(F20_0)>>)],
   ScoredPatient(1, 3) @@ [age |-> Num(28), diagnoses |-> List(<<>>)],
   [p |-> Dict([w |-> Num(1)]), age |-> Num(70),
    diagnoses |-> List(<<Str(F20_0)>>),
    vital_signs |-> Dict([blood_pressure_systolic |-> Num(155)])]}

InitCalls ==
  /\ protocol \in CallsProtocols
  /\ sessions = <<>>
  /\ patient_data = NoPatient
  /\ res = NoRes
  /\ calls = <<>>

NextCalls ==
  \/ \E k \in 1..3, pd \in CallsPatients : CallEvaluateDecisionPoint(k, pd)
  \/ \E k \in 1..3, pd \in CallsPatients : CallGetNextStep(k, pd)
  \/ \E k \in 1..3, pd \in CallsPatients : CallCheckContraindications(k, pd)
  \/ \E c \in 1..MaxCalls : EvaluateNextFactor(c)
  \/ \E c \in 1..MaxCalls : ReturnOutcome(c)
  \/ \E c \in 1..MaxCalls : EvaluateNextCheck(c)
  \/ \E c \in 1..MaxCalls : ReturnSafetyResult(c)

SpecCalls == InitCalls /\ [][NextCalls]_vars

(***************************************************************************)
(* A plan in use: sessions are recorded and completed, and the engine is   *)
(* asked for the current step, the next step of a step, completeness and   *)
(* progress, on a protocol with safety checks and a decision point.        *)
(***************************************************************************)
InitUse ==
  /\ protocol \in CallsProtocols
  /\ sessions = <<>>
  /\ patient_data \in CallsPatients
  /\ res = NoRes
  /\ calls = <<>>

NextUse ==
  \/ \E step_id \in 1..MaxSteps, status \in {"scheduled", "completed"} :
        AddSession(step_id, status)
  \/ \E i \in 1..MaxSessions : CompleteSession(i)
  \/ GetCurrentStep
  \/ IsProtocolComplete
  \/ \E k \in 1..MaxSteps, given \in BOOLEAN : GetNextStep(k, given)
  \/ \E k \in 1..MaxSteps : CanProgressToStep(k)

SpecUse == InitUse /\ [][NextUse]_vars

(***************************************************************************)
(* safety_service.py, check_medication_interactions.  A medication is a    *)
(* record with the keys "name" and "class" that it has; names and classes  *)
(* are compared whole and are strings here.  An interaction is             *)
(* [severity, medication_class]; its message and recommendation are not    *)
(* modelled.                                                               *)
(***************************************************************************)
MaxMedications == 2

Interaction(present, severity, medication_class) ==
  IF present
  THEN <<[severity |-> severity, medication_class |-> medication_class]>>
  ELSE <<>>

(* check_medication_interactions whose table of psychedelics does not *)
(* have ketamine                                                      *)
check_medication_interactions_no_ketamine(patient_medications, therapy_type) ==
  LET medication_classes ==
        {patient_medications[i].class :
           i \in {j \in DOMAIN patient_medications :
                    Has(patient_medications[j], "class")}}
      medication_names ==
        {patient_medications[i].name :
           i \in {j \in DOMAIN patient_medications :
                    Has(patient_medications[j], "name")}}
  IN  (IF therapy_type \in {"psilocybin", "lsd", "mdma"}
       THEN Interaction("MAOI" \in medication_classes, "blocking", "MAOI")
              \o Interaction("SSRI" \in medication_classes, "warning", "SSRI")
              \o Interaction("SNRI" \in medication_classes, "warning", "SNRI")
              \o Interaction(\/ "Lithium" \in medication_names
                             \/ "Mood Stabilizer" \in medication_classes,
                             "blocking", "Mood Stabilizer")
       ELSE <<>>)
      \o (IF therapy_type \in {"testosterone", "estrogen", "growth_hormone"}
          THEN Interaction("Anticoagulant" \in medication_classes,
                           "warning", "Anticoagulant")
          ELSE <<>>)
      \o (IF therapy_type \in {"stem_cell", "platelet_rich_plasma", "surgery"}
          THEN Interaction("Anticoagulant" \in medication_classes,
                           "warning", "Anticoagulant")
                 \o Interaction("Antiplatelet" \in medication_classes,
                                "warning", "Antiplatelet")
          ELSE <<>>)
      \o (IF therapy_type = "chemotherapy"
          THEN Interaction("Anticoagulant" \in medication_classes,
                           "warning", "Anticoagulant")
          ELSE <<>>)

check_medication_interactions(patient_medications, therapy_type) ==
  LET medication_classes ==
        {patient_medications[i].class :
           i \in {j \in DOMAIN patient_medications :
                    Has(patient_medications[j], "class")}}
      medication_names ==
        {patient_medications[i].name :
           i \in {j \in DOMAIN patient_medications :
                    Has(patient_medications[j], "name")}}
  IN  (IF therapy_type \in {"psilocybin", "lsd", "mdma", "ketamine"}
       THEN Interaction("MAOI" \in medication_classes, "blocking", "MAOI")
              \o Interaction("SSRI" \in medication_classes, "warning", "SSRI")
              \o Interaction("SNRI" \in medication_classes, "warning", "SNRI")
              \o Interaction(\/ "Lithium" \in medication_names
                             \/ "Mood Stabilizer" \in medication_classes,
                             "blocking", "Mood Stabilizer")
       ELSE <<>>)
      \o (IF therapy_type \in {"testosterone", "estrogen", "growth_hormone"}
          THEN Interaction("Anticoagulant" \in medication_classes,
                           "warning", "Anticoagulant")
          ELSE <<>>)
      \o (IF therapy_type \in {"stem_cell", "platelet_rich_plasma", "surgery"}
          THEN Interaction("Anticoagulant" \in medication_classes,
                           "warning", "Anticoagulant")
                 \o Interaction("Antiplatelet" \in medication_classes,
                                "warning", "Antiplatelet")
          ELSE <<>>)
      \o (IF therapy_type = "chemotherapy"
          THEN Interaction("Anticoagulant" \in medication_classes,
                           "warning", "Anticoagulant")
          ELSE <<>>)

(* the therapies of the tables, and one that is in none *)
TherapyTypes ==
  {"psilocybin", "lsd", "mdma", "ketamine",
   "testosterone", "estrogen", "growth_hormone",
   "stem_cell", "platelet_rich_plasma", "surgery",
   "chemotherapy", "ozone"}

MedicationNames == {"Lithium", "Sertraline"}

(* the classes of the tables, and one that is in none *)
MedicationClasses ==
  {"MAOI", "SSRI", "SNRI", "Mood Stabilizer", "Anticoagulant",
   "Antiplatelet", "Antihistamine"}

(* a medication has a name, a class, or both *)
Medications ==
  {[name |-> n] : n \in MedicationNames}
    \cup {[class |-> c] : c \in MedicationClasses}
    \cup {[name |-> n, class |-> c] :
            n \in MedicationNames, c \in MedicationClasses}

MedicationLists == UNION {[1..n -> Medications] : n \in 0..MaxMedications}

CheckMedicationInteractions(therapy_type) ==
  /\ res' = [op |-> "check_medication_interactions",
             therapy_type |-> therapy_type,
             val |-> check_medication_interactions(patient_data.medications,
                                                   therapy_type)]
  /\ UNCHANGED <<protocol, sessions, patient_data, calls>>

InitInteractions ==
  /\ protocol = [steps |-> <<LinearStep(1, 1)>>]
  /\ sessions = <<>>
  /\ patient_data \in {[medications |-> m] : m \in MedicationLists}
  /\ res = NoRes
  /\ calls = <<>>

NextInteractions ==
  \E therapy_type \in TherapyTypes : CheckMedicationInteractions(therapy_type)

SpecInteractions == InitInteractions /\ [][NextInteractions]_vars

(***************************************************************************)
(* A caller that walks a protocol by get_next_step: it starts at the first *)
(* step, records a completed session for the step it is at, asks           *)
(* get_next_step for the step that follows, and goes there; the walk ends  *)
(* when get_next_step returns no step or raises.  res holds the last       *)
(* answer of get_next_step.                                                *)
(***************************************************************************)
MaxVisits == 4

(* the step the caller is at *)
Position ==
  IF res.op = "none" THEN Some(protocol.steps[1])
  ELSE IF res.op = "walk" /\ res.val.ok THEN res.val.val
  ELSE NoStep

WalkStep ==
  /\ Position.some
  /\ Len(sessions) < MaxVisits
  /\ sessions' = Append(sessions, NewSession(Position.step.id, "completed"))
  /\ res' = [op |-> "walk", step |-> Position.step,
             val |-> get_next_step(protocol, Position.step,
                                   Dict(patient_data))]
  /\ UNCHANGED <<protocol, patient_data, calls>>

InitWalk ==
  /\ protocol \in DecisionProtocols \cup LinearProtocols
  /\ sessions = <<>>
  /\ patient_data \in DecisionPatients
  /\ res = NoRes
  /\ calls = <<>>

NextWalk == WalkStep

SpecWalk == InitWalk /\ [][NextWalk]_vars

(***************************************************************************)
(* Severities.  The checks on a diagnosis of schizophrenia and on an age   *)
(* above 65, each with the severity blocking, warning or info or with a    *)
(* severity that is none of the three, in lists of any order.              *)
(***************************************************************************)
Severities == {"blocking", "warning", "info", "critical"}

SeverityChecks ==
  {[c EXCEPT !.severity = severity] :
     c \in {CheckSchizophrenia, CheckAge}, severity \in Severities}

SeverityCheckLists == UNION {[1..n -> SeverityChecks] : n \in 0..MaxChecks}

InitBuckets ==
  /\ protocol \in {[steps |-> <<SafetyStep(1, 1, checks)>>] :
                     checks \in SeverityCheckLists}
  /\ sessions = <<>>
  /\ patient_data \in {PatientHealthy, PatientPsychosis, PatientMixed}
  /\ res = NoRes
  /\ calls = <<>>

NextBuckets == CheckContraindications(1)

SpecBuckets == InitBuckets /\ [][NextBuckets]_vars

(***************************************************************************)
(* Conditions that the safety service does not know: a type that is none   *)
(* of its five, no type at all, or an operator of another type.  The       *)
(* patients have the diagnosis, medication, reading and age that each of   *)
(* them names.                                                             *)
(***************************************************************************)
UnknownConditions ==
  {[type |-> "allergy", value |-> F20, operator |-> "contains"],
   [value |-> F20, operator |-> "contains"],
   [type |-> "diagnosis", value |-> F20, operator |-> "class_match"],
   [type |-> "medication", value |-> MAOI, operator |-> "contains"],
   [type |-> "lab_value", name |-> "ALT",
    operator |-> "between", threshold |-> 40],
   [type |-> "age", operator |-> "equals", threshold |-> 70],
   [type |-> "vital_sign", name |-> "blood_pressure_systolic",
    operator |-> "equals", threshold |-> 155]}

UnknownChecks ==
  {[check_type |-> "absolute_contraindication",
    condition |-> condition,
    severity |-> severity,
    override_allowed |-> "false"] :
     condition \in UnknownConditions,
     severity \in {"blocking", "warning", "info"}}

KnownChecks == {CheckSchizophrenia, CheckBipolar, CheckAge}

(* a check on an unknown condition alone, next to a known check, or next *)
(* to another one                                                        *)
UnknownCheckLists ==
  {<<u>> : u \in UnknownChecks}
    \cup {<<u, k>> : u \in UnknownChecks, k \in KnownChecks}
    \cup {<<k, u>> : u \in UnknownChecks, k \in KnownChecks}
    \cup {<<u, v>> : u \in UnknownChecks, v \in UnknownChecks}

PatientAtThresholds ==
  [age |-> Num(70),
   diagnoses |-> List(<<Str(F20)>>),
   medications |->
     List(<<Dict([name |-> Str(<<"P">>), class |-> Str(MAOI)])>>),
   lab_values |-> Dict([ALT |-> Num(55)]),
   vital_signs |-> Dict([blood_pressure_systolic |-> Num(155)])]

InitUnknown ==
  /\ protocol \in {[steps |-> <<SafetyStep(1, 1, checks)>>] :
                     checks \in UnknownCheckLists}
  /\ sessions = <<>>
  /\ patient_data \in {PatientAtThresholds, PatientHealthy, PatientBipolar}
  /\ res = NoRes
  /\ calls = <<>>

NextUnknown == CheckContraindications(1)

SpecUnknown == InitUnknown /\ [][NextUnknown]_vars

(***************************************************************************)
(* Properties of step navigation.                                          *)
(***************************************************************************)
(* The step ids of the sessions with status completed, and the steps of    *)
(* the protocol that have none.                                            *)
CompletedIds ==
  {sessions[i].protocol_step_id :
     i \in {j \in DOMAIN sessions : sessions[j].status = "completed"}}

IncompleteSteps == {st \in Range(protocol.steps) : st.id \notin CompletedIds}

(* C1: is_protocol_complete is true exactly when get_current_step returns  *)
(* no step, for every protocol and every list of recorded sessions.        *)
C1_CompleteIffNoCurrentStep ==
  is_protocol_complete(Plan) <=> ~get_current_step(Plan).some

(* The protocol is reported complete after the second step was completed  *)
(* before the first.                                                       *)
C1_Witness ==
  /\ res.op = "is_protocol_complete" /\ res.val
  /\ ~get_current_step(Plan).some
  /\ Len(protocol.steps) = 2
  /\ Len(sessions) = 2
  /\ sessions[1].status = "completed" /\ sessions[2].status = "completed"
  /\ sessions[1].protocol_step_id = protocol.steps[2].id
  /\ sessions[2].protocol_step_id = protocol.steps[1].id

(* C2: get_current_step returns the step of lowest sequence_order whose id *)
(* is not the step id of a completed session, and no step when there is    *)
(* none; no step of lower sequence_order than the current one is           *)
(* incomplete.                                                             *)
C2_CurrentIsLowestIncomplete ==
  LET cur == get_current_step(Plan)
  IN  IF IncompleteSteps = {} THEN ~cur.some
      ELSE /\ cur.some
           /\ cur.step \in IncompleteSteps
           /\ \A st \in IncompleteSteps :
                 cur.step.sequence_order <= st.sequence_order

(* get_current_step has returned the first step although a later step has  *)
(* a completed session.                                                    *)
C2_Witness ==
  /\ res.op = "get_current_step" /\ res.val.some
  /\ Len(protocol.steps) = 3
  /\ res.val.step = protocol.steps[1]
  /\ protocol.steps[3].id \in CompletedIds
  /\ protocol.steps[2].id \notin CompletedIds

(* C10: when a session is recorded or completed, the sequence_order of the *)
(* current step does not decrease (a complete protocol has no current step *)
(* any more), and a complete protocol stays complete.                      *)
C10_CompletionMonotonic ==
  [][/\ is_protocol_complete(Plan) => is_protocol_complete(PlanNext)
     /\ get_current_step(PlanNext).some =>
          /\ get_current_step(Plan).some
          /\ get_current_step(Plan).step.sequence_order
               <= get_current_step(PlanNext).step.sequence_order]_vars

(* The protocol became complete when complete_session completed the       *)
(* session of the first step, the session of the second step having been   *)
(* recorded before it.                                                     *)
C10_Witness ==
  /\ res.op = "complete_session" /\ res.ok
  /\ is_protocol_complete(Plan)
  /\ Len(protocol.steps) = 2
  /\ Len(sessions) = 2
  /\ sessions[1].protocol_step_id = protocol.steps[2].id
  /\ sessions[2].protocol_step_id = protocol.steps[1].id

(***************************************************************************)
(* Properties of the safety evaluation.                                    *)
(***************************************************************************)
(* The positions of the checks of a list that the patient data trigger and *)
(* that have the given severity.                                           *)
Triggered(safety_checks, severity) ==
  {i \in DOMAIN safety_checks :
     /\ evaluate_safety_check(safety_checks[i], patient_data).triggered
     /\ safety_checks[i].severity = severity}

(* C3: check_contraindications returns eligible exactly when no blocking   *)
(* check is triggered, whatever warning and info checks are triggered, and *)
(* can_progress of can_progress_to_step is that eligibility over the       *)
(* safety checks of the step it is asked about.                            *)
C3_EligibleIffNoBlocker ==
  /\ \A k \in DOMAIN protocol.steps :
        LET safety_checks == protocol.steps[k].safety_checks
            result == check_contraindications(patient_data, safety_checks)
        IN  /\ result.eligible <=> Triggered(safety_checks, "blocking") = {}
            /\ can_progress_to_step(Plan, protocol.steps[k],
                                    patient_data).can_progress
                 = result.eligible
  /\ res.op = "can_progress_to_step" =>
        res.val.can_progress
          <=> Triggered(protocol.steps[res.step].safety_checks, "blocking")
                = {}

(* can_progress_to_step allowed a step with two triggered warnings and a   *)
(* triggered info check, while the other step has a triggered blocker.     *)
C3_Witness ==
  /\ res.op = "can_progress_to_step" /\ res.val.can_progress
  /\ Len(res.val.warnings) >= 2
  /\ Len(res.val.risk_factors) >= 1
  /\ Triggered(protocol.steps[3 - res.step].safety_checks, "blocking") # {}

(* C6: the override_allowed flags of the checks change neither eligible    *)
(* nor the risk score, and a triggered blocking check that allows an       *)
(* override still gives eligible = false and risk score 100.               *)
C6_OverrideFlagIgnored ==
  \A k \in DOMAIN protocol.steps :
     LET safety_checks == protocol.steps[k].safety_checks
         result == check_contraindications(patient_data, safety_checks)
     IN  /\ \A flags \in [DOMAIN safety_checks -> {"true", "false"}] :
               LET other ==
                     [i \in DOMAIN safety_checks |->
                        [safety_checks[i] EXCEPT
                           !.override_allowed = flags[i]]]
                   result2 == check_contraindications(patient_data, other)
               IN  /\ result2.eligible = result.eligible
                   /\ result2.risk_score = result.risk_score
         /\ (\E i \in Triggered(safety_checks, "blocking") :
                safety_checks[i].override_allowed = "true")
              => ~result.eligible /\ result.risk_score = 100

(* check_contraindications refused a patient whose only triggered blocking *)
(* checks allow an override.                                               *)
C6_Witness ==
  /\ res.op = "check_contraindications"
  /\ ~res.val.eligible /\ res.val.risk_score = 100
  /\ Len(res.val.contraindications) >= 1
  /\ \A i \in DOMAIN res.val.contraindications :
        res.val.contraindications[i].override_allowed

Min(a, b) == IF a < b THEN a ELSE b

(* C5: the risk score is 100 when a blocking check is triggered, and       *)
(* min(100, 20 * warnings + 5 * infos) otherwise; it lies in 0..100 and    *)
(* does not decrease when one more warning or info check is triggered.     *)
C5_RiskScore ==
  LET safety_checks == protocol.steps[1].safety_checks
      result == check_contraindications(patient_data, safety_checks)
      nb == Cardinality(Triggered(safety_checks, "blocking"))
      nw == Cardinality(Triggered(safety_checks, "warning"))
      ni == Cardinality(Triggered(safety_checks, "info"))
  IN  /\ result.risk_score =
           IF nb > 0 THEN 100 ELSE Min(100, 20 * nw + 5 * ni)
      /\ result.risk_score \in 0..100
      /\ \A more \in {CheckBipolar, CheckBloodPressure, CheckAge} :
            check_contraindications(
              patient_data, Append(safety_checks, more)).risk_score
              >= result.risk_score
      /\ res.op = "check_contraindications" =>
            res.val.risk_score = result.risk_score

(* Without a blocker, warnings and infos worth more than 100 gave exactly  *)
(* 100.                                                                    *)
C5_Witness ==
  /\ res.op = "check_contraindications"
  /\ res.val.risk_score = 100
  /\ Len(res.val.contraindications) = 0
  /\ Len(res.val.warnings) >= 1 /\ Len(res.val.risk_factors) >= 1
  /\ 20 * Len(res.val.warnings) + 5 * Len(res.val.risk_factors) > 100

(***************************************************************************)
(* Properties of get_next_step.                                            *)
(***************************************************************************)
ResultStep == protocol.steps[res.step]

DecisionResult ==
  /\ res.op = "get_next_step"
  /\ ResultStep.step_type = "decision_point"

LinearResult ==
  /\ res.op = "get_next_step"
  /\ ResultStep.step_type # "decision_point"

BranchTable ==
  IF Has(ResultStep, "branch_outcomes") THEN ResultStep.branch_outcomes
  ELSE <<>>

(* the target of the first entry of the branch table for the outcome: a *)
(* set with that target, empty when there is none                       *)
ListedTarget(outcome_id) ==
  LET idx == {i \in DOMAIN BranchTable :
                BranchTable[i].outcome_id = outcome_id}
  IN  IF idx = {} THEN {}
      ELSE LET first == CHOOSE i \in idx : \A j \in idx : i <= j
           IN  IF Has(BranchTable[first], "next_step_order")
               THEN {BranchTable[first].next_step_order}
               ELSE {}

StepsAt(order) ==
  {st \in Range(protocol.steps) : st.sequence_order = order}

Outcome == evaluate_decision_point(ResultStep, patient_data)

(* C7: for a decision point evaluated with patient data, get_next_step     *)
(* returns the step whose sequence_order is the target that the branch     *)
(* table lists for the outcome of evaluate_decision_point on the same      *)
(* data, and returns a step only in that case.                             *)
C7_DecisionFollowsBranch ==
  (DecisionResult /\ res.given) =>
    /\ Outcome.ok =>
         \A t \in ListedTarget(Outcome.val) :
           \A st \in StepsAt(t) : res.val = Ok(Some(st))
    /\ res.val.ok =>
         /\ Outcome.ok
         /\ res.val.val.some
         /\ res.val.val.step.sequence_order \in ListedTarget(Outcome.val)

(* a branch taken on the second entry of the table, to a step that is not *)
(* the one after the decision point                                       *)
C7_Witness ==
  /\ DecisionResult
  /\ res.given
  /\ res.val.ok
  /\ Len(BranchTable) = 2
  /\ BranchTable[1].outcome_id # Outcome.val
  /\ res.val.val.step.sequence_order # ResultStep.sequence_order + 1

(* C8: for a step that is not a decision point, get_next_step returns the  *)
(* step whose sequence_order is one more than that of the current step,    *)
(* returns none exactly when the protocol has no such step, and gives the  *)
(* same answer with any patient data and with none.                        *)
C8_LinearNextIsOrderPlusOne ==
  LinearResult =>
    LET following == StepsAt(ResultStep.sequence_order + 1)
    IN  /\ res.val.ok
        /\ res.val.val.some <=> following # {}
        /\ res.val.val.some => res.val.val.step \in following
        /\ get_next_step(protocol, ResultStep, NoneV) = res.val
        /\ get_next_step(protocol, ResultStep, Dict(MistypedPatient)) = res.val
        /\ \A pd \in DecisionPatients :
             get_next_step(protocol, ResultStep, Dict(pd)) = res.val

(* none is returned although the protocol has later steps: the sequence *)
(* has a gap after the current step                                     *)
C8_Witness ==
  /\ LinearResult
  /\ res.val = Ok(NoStep)
  /\ \E st \in Range(protocol.steps) :
       st.sequence_order > ResultStep.sequence_order
  /\ ~res.given

(* the decision point was evaluated and the branch table has no target *)
(* for the outcome                                                     *)
OutcomeNotListed ==
  /\ res.given
  /\ Outcome.ok
  /\ ListedTarget(Outcome.val) = {}

(* the branch table has a target for the outcome and the protocol has no *)
(* step there                                                            *)
TargetWithoutStep ==
  /\ res.given
  /\ Outcome.ok
  /\ \E t \in ListedTarget(Outcome.val) : StepsAt(t) = {}

(* C9, as stated: for a decision point get_next_step never returns none;   *)
(* without patient data it fails with MissingPatientData; when the         *)
(* outcome is not listed in the branch table it fails with                 *)
(* NoBranchForOutcome; when no step has the listed target it fails with    *)
(* NoStepAtSequence.                                                       *)
C9_AsStated ==
  DecisionResult =>
    /\ res.val # Ok(NoStep)
    /\ ~res.given => res.val = Err("MissingPatientData")
    /\ OutcomeNotListed => res.val = Err("NoBranchForOutcome")
    /\ TargetWithoutStep => res.val = Err("NoStepAtSequence")

(* C9: for a decision point get_next_step never returns none; without      *)
(* patient data it fails with MissingPatientData; when the evaluation      *)
(* fails, it fails with the error of the evaluation; when the branch table *)
(* is missing or empty it fails with the error of a missing branch table;  *)
(* when the table is not empty and has no target for the outcome it fails  *)
(* with NoBranchForOutcome; when no step has the listed target it fails    *)
(* with NoStepAtSequence.                                                  *)
C9_DecisionPointErrors ==
  DecisionResult =>
    /\ res.val # Ok(NoStep)
    /\ ~res.given => res.val = Err("MissingPatientData")
    /\ (res.given /\ ~Outcome.ok) => res.val = Outcome
    /\ (OutcomeNotListed /\ BranchTable = <<>>) =>
         res.val = Err("MissingBranchOutcomes")
    /\ (OutcomeNotListed /\ BranchTable # <<>>) =>
         res.val = Err("NoBranchForOutcome")
    /\ TargetWithoutStep => res.val = Err("NoStepAtSequence")

(* the outcome is listed second in the table, with a target between two *)
(* steps of the protocol                                                *)
C9_Witness ==
  /\ DecisionResult
  /\ TargetWithoutStep
  /\ res.val = Err("NoStepAtSequence")
  /\ Len(BranchTable) = 2
  /\ BranchTable[1].outcome_id # Outcome.val
  /\ \E t \in ListedTarget(Outcome.val) :
       \E st \in Range(protocol.steps) : st.sequence_order > t

(***************************************************************************)
(* Properties of the recording of completed sessions.                      *)
(***************************************************************************)
BlockedSteps ==
  {st \in Range(protocol.steps) :
     Triggered(st.safety_checks, "blocking") # {}}

(* C4: no session is completed for a step one of whose blocking safety     *)
(* checks is triggered by the data of the patient.  No operation of the    *)
(* program records an override, so no triggered check is ever overridden.  *)
C4_NoCompletedSessionOfBlockedStep ==
  \A i \in DOMAIN sessions :
    sessions[i].status = "completed" =>
      \A st \in BlockedSteps : st.id # sessions[i].protocol_step_id

(* C11: is_protocol_complete is true exactly when every step id of the    *)
(* protocol is the step id of a session with status completed; sessions   *)
(* of another status, several completed sessions of one step and          *)
(* completed sessions of steps outside the protocol do not stand for a    *)
(* step that has no completed session.                                    *)
C11_CompleteIffEveryStepCompleted ==
  /\ is_protocol_complete(Plan) <=>
       \A st \in Range(protocol.steps) :
         \E i \in DOMAIN sessions :
           /\ sessions[i].status = "completed"
           /\ sessions[i].protocol_step_id = st.id
  /\ res.op = "is_protocol_complete" => res.val = is_protocol_complete(Plan)

(* The protocol of two steps is reported incomplete with two completed *)
(* sessions, both of the same step.                                    *)
C11_Witness ==
  /\ res.op = "is_protocol_complete" /\ ~res.val
  /\ Len(protocol.steps) = 2
  /\ Len(sessions) = 2
  /\ sessions[1].status = "completed" /\ sessions[2].status = "completed"
  /\ sessions[1].protocol_step_id = sessions[2].protocol_step_id
  /\ sessions[1].protocol_step_id = protocol.steps[1].id

(***************************************************************************)
(* Properties of the range operators.                                      *)
(***************************************************************************)
EvaluatedFactor == protocol.steps[1].evaluation_rules.factor

DeclaredRanges ==
  IF EvaluatedFactor.operator = "in_range" THEN EvaluatedFactor.ranges
  ELSE EvaluatedFactor.thresholds

(* the range at position i holds the value: min <= value < max, a bound *)
(* that is not declared being no bound, and the last range also holds   *)
(* its max                                                              *)
HoldsValue(ranges, i, value) ==
  \/ /\ Has(ranges[i], "min") => ranges[i].min <= value
     /\ Has(ranges[i], "max") => value < ranges[i].max
  \/ /\ i = Len(ranges)
     /\ Has(ranges[i], "max")
     /\ value = ranges[i].max

NoRangeMatched(result) ==
  /\ ~result.ok
  /\ result.err \in {"NoMatchingRange", "NoMatchingThreshold"}

(* C12: for in_range and threshold alike the evaluation returns the label  *)
(* of the first declared range that holds the value, only the last         *)
(* declared range holding its max, and fails with the no-match error when  *)
(* no range holds it; on the same list the two operators give the same     *)
(* label or both fail.                                                     *)
C12_FirstRangeInOrder ==
  res.op = "evaluate_decision_point" =>
    LET value == patient_data.s.v
        holding == {i \in DOMAIN DeclaredRanges :
                      HoldsValue(DeclaredRanges, i, value)}
        other == evaluate_factor(
                   RangeFactor(IF EvaluatedFactor.operator = "in_range"
                               THEN "threshold" ELSE "in_range",
                               DeclaredRanges),
                   patient_data)
    IN  /\ holding = {} => NoRangeMatched(res.val)
        /\ holding # {} =>
             \E i \in holding :
               /\ \A j \in holding : i <= j
               /\ res.val = Ok(DeclaredRanges[i].value)
        /\ res.val.ok => other = res.val
        /\ ~res.val.ok => ~other.ok

(* the ranges all declare min and max, and each starts where the one *)
(* before it ends                                                    *)
Contiguous(ranges) ==
  /\ \A i \in DOMAIN ranges : Has(ranges[i], "min") /\ Has(ranges[i], "max")
  /\ \A i \in 1..(Len(ranges) - 1) : ranges[i].max = ranges[i + 1].min

(* C13: with ranges declared contiguously, every value from the min of the *)
(* first range to the max of the last, both included, is held by exactly   *)
(* one declared range, and the evaluation returns the label of that range  *)
(* and does not fail.                                                      *)
C13_ContiguousRangesCover ==
  (/\ res.op = "evaluate_decision_point"
   /\ Contiguous(DeclaredRanges)
   /\ DeclaredRanges[1].min <= patient_data.s.v
   /\ patient_data.s.v <= DeclaredRanges[Len(DeclaredRanges)].max) =>
    LET holding == {i \in DOMAIN DeclaredRanges :
                      HoldsValue(DeclaredRanges, i, patient_data.s.v)}
    IN  /\ Cardinality(holding) = 1
        /\ \A i \in holding : res.val = Ok(DeclaredRanges[i].value)

(* the value is the max of the last of three ranges, the second of which *)
(* is empty                                                              *)
C13_Witness ==
  /\ res.op = "evaluate_decision_point"
  /\ EvaluatedFactor.operator = "in_range"
  /\ Contiguous(DeclaredRanges)
  /\ Len(DeclaredRanges) = 3
  /\ DeclaredRanges[1].min < DeclaredRanges[1].max
  /\ DeclaredRanges[3].min < DeclaredRanges[3].max
  /\ patient_data.s.v = DeclaredRanges[3].max
  /\ res.val = Ok(DeclaredRanges[3].value)

(***************************************************************************)
(* Properties of multi-factor decision points.                             *)
(***************************************************************************)
DeclaredFactors == protocol.steps[1].evaluation_rules.factors

DeclaredMatrix == protocol.steps[1].evaluation_rules.decision_matrix

(* the result of each declared factor on the patient data, by position *)
FactorResults ==
  [i \in DOMAIN DeclaredFactors |->
     evaluate_factor(DeclaredFactors[i], patient_data)]

(* the labels, separated by " + ", built from the last one backwards *)
RECURSIVE KeyOf(_)
KeyOf(labels) ==
  IF Len(labels) = 1 THEN labels[1]
  ELSE KeyOf(SubSeq(labels, 1, Len(labels) - 1))
         \o " + " \o labels[Len(labels)]

(* the entry of the matrix for a key: the one under the key, else the one *)
(* under "default", else a failure                                        *)
EntryFor(key) ==
  IF key \in DOMAIN DeclaredMatrix THEN Ok(DeclaredMatrix[key])
  ELSE IF "default" \in DOMAIN DeclaredMatrix
  THEN Ok(DeclaredMatrix["default"])
  ELSE Err("NoMatrixEntry")

AllFactorsAnswer ==
  /\ res.op = "evaluate_decision_point"
  /\ DOMAIN DeclaredMatrix # {}
  /\ \A i \in DOMAIN DeclaredFactors : FactorResults[i].ok

(* C14: the labels of the factors are joined with " + " in the order       *)
(* given, and the result is the matrix entry under exactly that key, the   *)
(* entry under "default" when the key is absent, and the failure           *)
(* NoMatrixEntry, with no outcome, when that is absent too.                *)
C14_MatrixLookup ==
  AllFactorsAnswer =>
    res.val = EntryFor(KeyOf([i \in DOMAIN DeclaredFactors |->
                                FactorResults[i].val]))

(* the entry under the exact key was returned from a matrix that has a *)
(* default entry as well                                               *)
C14_Witness ==
  /\ AllFactorsAnswer
  /\ Len(DeclaredFactors) = 2
  /\ "default" \in DOMAIN DeclaredMatrix
  /\ res.val.ok
  /\ res.val.val # DeclaredMatrix["default"]

(* the orders in which n factors can be declared *)
Orders(n) ==
  {p \in [1..n -> 1..n] : \A i, j \in 1..n : p[i] = p[j] => i = j}

Reordered(list, p) == [i \in DOMAIN list |-> list[p[i]]]

FactorLabels == [i \in DOMAIN DeclaredFactors |-> FactorResults[i].val]

(* the outcome of the decision point with its factors declared in the *)
(* order p and its matrix unchanged                                   *)
ReorderedOutcome(p) ==
  evaluate_decision_point(
    MatrixStep(Reordered(DeclaredFactors, p), DeclaredMatrix), patient_data)

FailingFactors == {i \in DOMAIN DeclaredFactors : ~FactorResults[i].ok}

(* C16: when a factor of a multi-factor rule fails, evaluate_decision_point *)
(* fails with the failure of the first factor, in declared order, that      *)
(* fails: no outcome is returned, whatever the other factors answer and     *)
(* whatever the matrix holds, its default entry included.                   *)
C16_AllOrNothing ==
  (/\ res.op = "evaluate_decision_point"
   /\ DOMAIN DeclaredMatrix # {}
   /\ FailingFactors # {}) =>
    /\ ~res.val.ok
    /\ \E i \in FailingFactors :
         /\ \A j \in FailingFactors : i <= j
         /\ res.val = FactorResults[i]

(* two factors fail in different ways, a third answers, and the matrix *)
(* has a default entry                                                 *)
C16_Witness ==
  /\ res.op = "evaluate_decision_point"
  /\ "default" \in DOMAIN DeclaredMatrix
  /\ DeclaredFactors = <<FlagFactor, WeightFactor, ScoreFactor>>
  /\ FactorResults[1].ok
  /\ FactorResults[2] = Err("NoMatchingRange")
  /\ FactorResults[3] = Err("MissingFactorData")
  /\ res.val = Err("NoMatchingRange")

(***************************************************************************)
(* Properties of single factors on nested patient data.                    *)
(***************************************************************************)
(* the number of keys of the path of the factor: "p" ... "p" "b" *)
FactorDepth == (Len(EvaluatedFactor.factor) + 1) \div 2

(* the value under "b" inside depth - 1 dicts "p" of the document, and *)
(* none when a key is absent or is looked up in a value that is not a   *)
(* dict                                                                 *)
RECURSIVE ValueAt(_, _)
ValueAt(doc, depth) ==
  IF doc.t # "dict" THEN NoneV
  ELSE IF depth = 1
  THEN (IF "b" \in DOMAIN doc.v THEN doc.v["b"] ELSE NoneV)
  ELSE IF "p" \in DOMAIN doc.v THEN ValueAt(doc.v["p"], depth - 1)
  ELSE NoneV

Extracted == ValueAt(Dict(patient_data), FactorDepth)

IsTrue(value) == value.t = "bool" /\ value.v

(* C17: for the boolean operator the evaluation returns true_value exactly *)
(* when the extracted value is the boolean true and false_value for any    *)
(* other value, and it fails with MissingBooleanLabel whenever true_value  *)
(* or false_value is absent from the factor definition, whatever the       *)
(* extracted value.                                                        *)
C17_BooleanLabels ==
  (/\ res.op = "evaluate_decision_point"
   /\ EvaluatedFactor.operator = "boolean"
   /\ Extracted.t # "none") =>
    IF Has(EvaluatedFactor, "true_value") /\ Has(EvaluatedFactor, "false_value")
    THEN res.val = Ok(IF IsTrue(Extracted) THEN EvaluatedFactor.true_value
                      ELSE EvaluatedFactor.false_value)
    ELSE res.val = Err("MissingBooleanLabel")

(* C18: evaluate_factor fails with MissingFactorData, and returns no       *)
(* label, whenever a key of the dotted path of the factor is absent from   *)
(* the patient data or is looked up in a value that is not a dict; it      *)
(* returns a label only when the whole path leads to a value.              *)
C18_MissingFactorData ==
  res.op = "evaluate_decision_point" =>
    /\ Extracted.t = "none" => res.val = Err("MissingFactorData")
    /\ res.val.ok => Extracted.t # "none"

(* the path p.p.b meets a number under the first p *)
C18_Witness ==
  /\ res.op = "evaluate_decision_point"
  /\ FactorDepth = 3
  /\ DOMAIN patient_data = {"p"}
  /\ patient_data.p.t = "num"
  /\ res.val = Err("MissingFactorData")

(***************************************************************************)
(* Properties of evaluate_decision_point.                                  *)
(***************************************************************************)
WithBranches(step, branch_outcomes) ==
  [k \in DOMAIN step \cup {"branch_outcomes"} |->
     IF k = "branch_outcomes" THEN branch_outcomes ELSE step[k]]

WithoutBranches(step) ==
  [k \in DOMAIN step \ {"branch_outcomes"} |-> step[k]]

(* C19: evaluate_decision_point does not read branch_outcomes: the step    *)
(* with any other branch table, empty or missing, and the same evaluation  *)
(* rules gives, on the same patient data, the same outcome or the same     *)
(* failure.                                                                *)
C19_BranchesNotRead ==
  res.op = "evaluate_decision_point" =>
    /\ evaluate_decision_point(WithoutBranches(protocol.steps[1]),
                               patient_data) = res.val
    /\ \A b \in BranchTables :
         evaluate_decision_point(WithBranches(protocol.steps[1], b),
                                 patient_data) = res.val

(* the outcome is one that the branch table of the step does not list *)
C19_Witness ==
  /\ res.op = "evaluate_decision_point"
  /\ res.val = Ok("moderate")
  /\ Has(protocol.steps[1], "branch_outcomes")
  /\ Len(protocol.steps[1].branch_outcomes) = 2

(***************************************************************************)
(* Properties of the safety checks on readings.                            *)
(***************************************************************************)
(* the reading that the condition names is not in the patient data *)
ReadingAbsent(condition) ==
  LET container == IF condition.type = "lab_value" THEN "lab_values"
                   ELSE "vital_signs"
  IN  \/ ~Has(patient_data, container)
      \/ ~Has(patient_data[container].v, condition.name)

(* the conditions of the items of the three lists of a result *)
ReportedConditions(result) ==
  {result.contraindications[i].condition :
     i \in DOMAIN result.contraindications}
    \cup {result.warnings[i].condition : i \in DOMAIN result.warnings}
    \cup {result.risk_factors[i].condition : i \in DOMAIN result.risk_factors}

(* C20: a lab_value or vital_sign check whose named reading is absent from *)
(* the patient data is not triggered: check_contraindications returns a    *)
(* result, and the check is in none of its three lists, whatever its       *)
(* severity; alone, it leaves the patient eligible with a risk score of 0. *)
C20_AbsentReadingNotTriggered ==
  res.op = "check_contraindications" =>
    LET checks == protocol.steps[1].safety_checks
        absent == {i \in DOMAIN checks : ReadingAbsent(checks[i].condition)}
    IN  /\ DOMAIN res.val = {"eligible", "risk_score", "contraindications",
                             "warnings", "risk_factors"}
        /\ \A i \in absent :
             checks[i].condition \notin ReportedConditions(res.val)
        /\ absent = DOMAIN checks =>
             res.val.eligible /\ res.val.risk_score = 0

(* a blocking check on a lab value that the patient data do not have, *)
(* before a check on a vital sign that is triggered                   *)
C20_Witness ==
  /\ res.op = "check_contraindications"
  /\ Len(protocol.steps[1].safety_checks) = 2
  /\ protocol.steps[1].safety_checks[1].condition.type = "lab_value"
  /\ protocol.steps[1].safety_checks[1].severity = "blocking"
  /\ ~Has(patient_data, "lab_values")
  /\ res.val.eligible
  /\ Len(res.val.warnings) = 1

(***************************************************************************)
(* Properties of the order of the safety checks.                           *)
(***************************************************************************)
(* the result of check_contraindications on the checks of step 1 put in *)
(* the order p                                                          *)
ReorderedChecks(p) ==
  check_contraindications(patient_data,
                          Reordered(protocol.steps[1].safety_checks, p))

(* C21: the outcome of check_contraindications does not depend on the      *)
(* order of the checks: for every permutation of the list, eligible, the   *)
(* risk score and the sets of items in contraindications, warnings and     *)
(* risk_factors are those of the result on the list as given.              *)
C21_OrderOfChecksIrrelevant ==
  res.op = "check_contraindications" =>
    \A p \in Orders(Len(protocol.steps[1].safety_checks)) :
       /\ ReorderedChecks(p).eligible = res.val.eligible
       /\ ReorderedChecks(p).risk_score = res.val.risk_score
       /\ Range(ReorderedChecks(p).contraindications)
            = Range(res.val.contraindications)
       /\ Range(ReorderedChecks(p).warnings) = Range(res.val.warnings)
       /\ Range(ReorderedChecks(p).risk_factors) = Range(res.val.risk_factors)

(* a warning listed before a blocker and an info, all three triggered *)
C21_Witness ==
  /\ res.op = "check_contraindications"
  /\ Len(protocol.steps[1].safety_checks) >= 3
  /\ protocol.steps[1].safety_checks[1].severity = "warning"
  /\ ~res.val.eligible
  /\ Len(res.val.contraindications) = 1
  /\ Len(res.val.warnings) >= 1
  /\ Len(res.val.risk_factors) >= 1

(***************************************************************************)
(* Properties of the comparison of a reading with a threshold.             *)
(***************************************************************************)
(* the reading of the patient data that the condition names *)
ReadingOf(condition) ==
  IF condition.type = "lab_value"
  THEN patient_data.lab_values.v[condition.name].v
  ELSE patient_data.vital_signs.v[condition.name].v

(* the comparison that the operator of the condition names *)
ComparisonHolds(condition) ==
  IF condition.operator = "greater_than"
  THEN ReadingOf(condition) > condition.threshold
  ELSE IF condition.operator = "less_than"
  THEN ReadingOf(condition) < condition.threshold
  ELSE ReadingOf(condition) = condition.threshold

(* the number of items in the three lists of a result *)
Reported(result) ==
  Len(result.contraindications) + Len(result.warnings)
    + Len(result.risk_factors)

(* C22: a lab_value or vital_sign check whose reading is present is        *)
(* triggered exactly when the comparison of its operator holds between the *)
(* reading and the threshold: greater than, less than, or equal, for both  *)
(* kinds of check.                                                         *)
C22_ComparisonDecides ==
  res.op = "check_contraindications" =>
    LET condition == protocol.steps[1].safety_checks[1].condition
    IN  /\ ~ReadingAbsent(condition)
        /\ Reported(res.val) = 1 <=> ComparisonHolds(condition)
        /\ Reported(res.val) \in {0, 1}

(***************************************************************************)
(* Properties of interleaved calls.                                        *)
(***************************************************************************)
(* what the operation of a call returns for the arguments of the call *)
ResultAlone(call) ==
  IF call.op = "evaluate_decision_point"
  THEN evaluate_decision_point(call.step, call.pd)
  ELSE IF call.op = "get_next_step"
  THEN get_next_step(protocol, call.step, Dict(call.pd))
  ELSE check_contraindications(call.pd, call.step.safety_checks)

(* C23: evaluations share no state: however the calls for different        *)
(* patients and steps interleave, each call returns what its operation     *)
(* returns for its arguments alone, and two calls of one operation with    *)
(* the same step and patient data return the same result.                  *)
C23_CallsIndependent ==
  /\ \A c \in DOMAIN calls :
        calls[c].done => calls[c].val = ResultAlone(calls[c])
  /\ \A c, d \in DOMAIN calls :
        /\ calls[c].done /\ calls[d].done
        /\ calls[c].op = calls[d].op
        /\ calls[c].step.id = calls[d].step.id
        /\ DOMAIN calls[c].pd = DOMAIN calls[d].pd
        /\ calls[c].pd = calls[d].pd
        => calls[c].val = calls[d].val

(* the second call ran its whole loop and returned while the first call, *)
(* of the same operation for another patient, is inside its loop         *)
C23_Witness ==
  /\ Len(calls) = 2
  /\ calls[1].op = calls[2].op
  /\ calls[1].pd.age # calls[2].pd.age
  /\ ~calls[1].done /\ calls[1].i = 2
  /\ calls[2].done /\ calls[2].i > 2

(***************************************************************************)
(* Properties of what the engine leaves alone.                             *)
(***************************************************************************)
EngineOps ==
  {"get_current_step", "get_next_step", "is_protocol_complete",
   "can_progress_to_step"}

(* C24: a call of get_current_step, get_next_step, is_protocol_complete or *)
(* can_progress_to_step leaves the sessions of the plan and their          *)
(* statuses, the steps and safety checks of the protocol and the patient   *)
(* data as they were; the set of completed steps changes only in a step    *)
(* in which the caller records or completes a session.                     *)
C24_EngineReadsOnly ==
  [][/\ res'.op \in EngineOps =>
          /\ sessions' = sessions
          /\ protocol' = protocol
          /\ patient_data' = patient_data
     /\ CompletedSessionStepIds(sessions') # CompletedSessionStepIds(sessions)
          => /\ res'.op \notin EngineOps
             /\ \/ Len(sessions') = Len(sessions) + 1
                \/ \E i \in DOMAIN sessions :
                      /\ sessions[i].status # "completed"
                      /\ sessions'[i].status = "completed"]_vars

(* get_current_step answered with the decision point, on a plan with a *)
(* completed and a scheduled session                                   *)
C24_Witness ==
  /\ res.op = "get_current_step"
  /\ res.val.some /\ res.val.step.step_type = "decision_point"
  /\ Len(sessions) = 2
  /\ sessions[1].status = "completed"
  /\ sessions[2].status = "scheduled"

(***************************************************************************)
(* Properties of the medication interactions.                              *)
(***************************************************************************)
(* the classes and the names of the medications of the patient *)
ClassesTaken ==
  {patient_data.medications[i].class :
     i \in {j \in DOMAIN patient_data.medications :
              "class" \in DOMAIN patient_data.medications[j]}}

NamesTaken ==
  {patient_data.medications[i].name :
     i \in {j \in DOMAIN patient_data.medications :
              "name" \in DOMAIN patient_data.medications[j]}}

PsychedelicTherapies == {"psilocybin", "lsd", "mdma", "ketamine"}

InvasiveTherapies == {"stem_cell", "platelet_rich_plasma", "surgery"}

TableTherapies ==
  PsychedelicTherapies \cup InvasiveTherapies
    \cup {"testosterone", "estrogen", "growth_hormone", "chemotherapy"}

TableClasses ==
  {"MAOI", "SSRI", "SNRI", "Mood Stabilizer", "Anticoagulant", "Antiplatelet"}

(* the interactions that the claim names: reported when therapy and class *)
(* meet                                                                   *)
NamedInteractionsReported ==
  LET reported == Range(res.val)
      found(severity, class) ==
        [severity |-> severity, medication_class |-> class] \in reported
  IN  /\ res.therapy_type \in PsychedelicTherapies /\ "MAOI" \in ClassesTaken
           => found("blocking", "MAOI")
      /\ res.therapy_type \in PsychedelicTherapies /\ "SSRI" \in ClassesTaken
           => found("warning", "SSRI")
      /\ res.therapy_type \in PsychedelicTherapies /\ "SNRI" \in ClassesTaken
           => found("warning", "SNRI")
      /\ res.therapy_type \in InvasiveTherapies
           /\ "Anticoagulant" \in ClassesTaken
           => found("warning", "Anticoagulant")

(* C25, as stated: the named interactions are reported, and for a therapy  *)
(* in none of the tables, or medications with none of the classes of the   *)
(* tables, no interaction is returned.                                     *)
C25_AsStated ==
  res.op = "check_medication_interactions" =>
    /\ NamedInteractionsReported
    /\ \/ res.therapy_type \notin TableTherapies
       \/ ClassesTaken \cap TableClasses = {}
       => res.val = <<>>

(* C25: a psychedelic therapy with class MAOI gives a blocking             *)
(* interaction, with class SSRI or SNRI a warning, an invasive procedure   *)
(* with class Anticoagulant a warning; for a therapy in none of the tables *)
(* no interaction is returned, and for medications with none of the        *)
(* classes of the tables none is returned unless a medication is named     *)
(* Lithium and the therapy is a psychedelic one, when the blocking         *)
(* interaction of mood stabilizers is.                                     *)
C25_Interactions ==
  res.op = "check_medication_interactions" =>
    /\ NamedInteractionsReported
    /\ res.therapy_type \notin TableTherapies => res.val = <<>>
    /\ ClassesTaken \cap TableClasses = {} =>
         res.val =
           IF /\ "Lithium" \in NamesTaken
              /\ res.therapy_type \in PsychedelicTherapies
           THEN <<[severity |-> "blocking",
                   medication_class |-> "Mood Stabilizer"]>>
           ELSE <<>>

(* ketamine for a patient on an MAOI and an SSRI: a blocking interaction *)
(* and a warning                                                        *)
C25_Witness ==
  /\ res.op = "check_medication_interactions"
  /\ res.therapy_type = "ketamine"
  /\ ClassesTaken = {"MAOI", "SSRI"}
  /\ Len(res.val) = 2
  /\ res.val[1].severity = "blocking"

(***************************************************************************)
(* Properties of a walk by get_next_step.                                  *)
(***************************************************************************)
(* C26: when the walk comes to the point where get_next_step returns no    *)
(* step, every visited step having been recorded as completed, the         *)
(* protocol is complete and get_current_step returns no step.              *)
C26_NoneMeansComplete ==
  res.op = "walk" /\ res.val.ok /\ ~res.val.val.some =>
    /\ is_protocol_complete(Plan)
    /\ ~get_current_step(Plan).some

(* the steps before the given one in the sequence are all completed *)
EarlierCompleted(step) ==
  \A k \in DOMAIN protocol.steps :
     protocol.steps[k].sequence_order < step.sequence_order
       => protocol.steps[k].id \in CompletedSessionStepIds(sessions)

(* C27: after the completion of a decision point is recorded, the steps    *)
(* before it being completed, get_current_step returns the step that       *)
(* get_next_step returned for the decision point and the patient data.     *)
C27_CurrentIsBranchTarget ==
  /\ res.op = "walk"
  /\ res.step.step_type = "decision_point"
  /\ res.val.ok
  /\ EarlierCompleted(res.step)
  => get_current_step(Plan) = res.val.val

(***************************************************************************)
(* Properties of complete_session.                                         *)
(***************************************************************************)
(* C28: complete_session completes a session that is in progress; for a    *)
(* session that is scheduled, cancelled or completed it answers with an    *)
(* error and leaves the status, actual_start and actual_end of the session *)
(* as they were, so that a completed session never changes again.          *)
C28_OnlyInProgressCompletes ==
  [][res'.op = "complete_session" =>
       IF sessions[res'.session].status = "in_progress"
       THEN /\ res'.ok
            /\ sessions'[res'.session].status = "completed"
       ELSE /\ ~res'.ok
            /\ sessions' = sessions]_vars

(***************************************************************************)
(* Properties of the three lists of a safety result.                       *)
(***************************************************************************)
(* the positions of the checks of step 1 that the patient data trigger *)
TriggeredChecks ==
  {i \in DOMAIN protocol.steps[1].safety_checks :
     evaluate_safety_check(protocol.steps[1].safety_checks[i],
                           patient_data).triggered}

(* the list of a result that the severity of a check belongs to *)
ListOf(severity) ==
  IF severity = "blocking" THEN "contraindications"
  ELSE IF severity = "warning" THEN "warnings"
  ELSE "risk_factors"

(* the items of a list are the triggered checks whose severity belongs to *)
(* the list, one item for each, in the order of the checks                *)
HoldsTriggered(list) ==
  LET checks == protocol.steps[1].safety_checks
      filed == SelectSeq([i \in DOMAIN checks |-> i],
                         LAMBDA i : /\ i \in TriggeredChecks
                                    /\ ListOf(checks[i].severity) = list)
  IN  /\ Len(res.val[list]) = Len(filed)
      /\ \A n \in DOMAIN filed :
            /\ res.val[list][n].condition = checks[filed[n]].condition
            /\ res.val[list][n].severity = checks[filed[n]].severity

(* C29: every check that triggers is in exactly one of the three lists of  *)
(* the result and a check that does not trigger is in none: blocking in    *)
(* contraindications, warning in warnings, any other severity in           *)
(* risk_factors; the lengths of the lists sum to the number of triggered   *)
(* checks.                                                                 *)
C29_OneListEach ==
  res.op = "check_contraindications" =>
    /\ HoldsTriggered("contraindications")
    /\ HoldsTriggered("warnings")
    /\ HoldsTriggered("risk_factors")
    /\ Reported(res.val) = Cardinality(TriggeredChecks)

(* a triggered check of a severity that is none of the three, a triggered *)
(* warning and a blocking check that is not triggered                     *)
C29_Witness ==
  /\ res.op = "check_contraindications"
  /\ Len(res.val.contraindications) = 0
  /\ Len(res.val.warnings) = 1
  /\ Len(res.val.risk_factors) = 1
  /\ res.val.risk_factors[1].severity = "critical"
  /\ \E i \in DOMAIN protocol.steps[1].safety_checks :
        /\ protocol.steps[1].safety_checks[i].severity = "blocking"
        /\ i \notin TriggeredChecks

(***************************************************************************)
(* Properties of conditions that the safety service does not know.         *)
(***************************************************************************)
(* the operators that the check of each type of condition compares with *)
OperatorsOf(type) ==
  IF type = "diagnosis" THEN {"contains", "exact"}
  ELSE IF type = "medication" THEN {"class_match", "name_match"}
  ELSE IF type = "lab_value" THEN {"greater_than", "less_than", "equals"}
  ELSE IF type \in {"age", "vital_sign"} THEN {"greater_than", "less_than"}
  ELSE {}

(* the condition has a type that is none of the five, or an operator that *)
(* its type does not have                                                 *)
Unrecognised(condition) ==
  \/ "type" \notin DOMAIN condition
  \/ OperatorsOf(condition.type) = {}
  \/ /\ "operator" \in DOMAIN condition
     /\ condition.operator \notin OperatorsOf(condition.type)

(* C30: a check whose condition has an unknown type, or an operator that   *)
(* its type does not recognise, never triggers and never raises, whatever  *)
(* its severity: it is in none of the lists of the result, and eligible,   *)
(* the risk score and the lists are those of the other checks alone.       *)
C30_UnknownNeverTriggers ==
  res.op = "check_contraindications" =>
    LET checks == protocol.steps[1].safety_checks
    IN  /\ \A i \in DOMAIN checks :
              Unrecognised(checks[i].condition)
                => checks[i].condition \notin ReportedConditions(res.val)
        /\ res.val =
             check_contraindications(
               patient_data,
               SelectSeq(checks, LAMBDA c : ~Unrecognised(c.condition)))

(* a blocking check on an unknown type of condition next to a warning that *)
(* is triggered: the patient is eligible with one warning                  *)
C30_Witness ==
  /\ res.op = "check_contraindications"
  /\ Len(protocol.steps[1].safety_checks) = 2
  /\ "type" \in DOMAIN protocol.steps[1].safety_checks[1].condition
  /\ protocol.steps[1].safety_checks[1].condition.type = "allergy"
  /\ protocol.steps[1].safety_checks[1].severity = "blocking"
  /\ res.val.eligible
  /\ Len(res.val.warnings) = 1
  /\ res.val.risk_score = 20

====
